---- MODULE Spec2Model ----
(***************************************************************************)
(* Verification model of the kg-gen deduplication and clustering engine:   *)
(*   - cluster_items / cluster_graph (kg_gen_lc/lc_steps/cluster_graph.py) *)
(*   - LangChainRunner.predict_json  (kg_gen_lc/langchain_runner.py)       *)
(*   - EntityDeduplicator            (kg_gen/deduplication.py)             *)
(*   - _apply_deterministic_deduplication_to_graph                         *)
(*                                   (kg_gen/steps/_3_deduplicate.py)      *)
(***************************************************************************)
EXTENDS Integers, Sequences, FiniteSets, TLC

VARIABLES
    call,                \* entry point: "cluster_items" or "cluster_graph"
    graph,               \* cluster_graph argument `graph`
    item_type,           \* cluster_items argument `item_type`
    entity_result,       \* cluster_graph.py:209, (entities, entity_clusters)
    out_graph,           \* Graph returned by cluster_graph
    pc,                  \* position inside cluster_items
    items,               \* cluster_items argument `items`
    remaining_items,     \* cluster_graph.py:25
    clusters,            \* cluster_graph.py:26, list of Cluster
    no_progress_count,   \* cluster_graph.py:27
    to_process,          \* items_to_process not yet sliced into a batch
    batch,               \* current phase-B batch (cluster_graph.py:88)
    cluster_reps,        \* what is left of the batch_assign answer (cluster_graph.py:104)
    item_assignments,    \* cluster_graph.py:116
    result,              \* value returned by cluster_items
    rounds,              \* history: phase-A iterations + phase-B batches
    accepted,            \* history: clusters accepted in phase A
    validate_prompt,     \* local validate_prompt, assigned at cluster_graph.py:50
    oracle_labels,       \* entity labels the LLM may mention in its answers
    probe,               \* what is recorded of the LLM calls: "off", "answers",
                         \* "calls", "conduct"
    oracle,              \* history: the LLM calls of the last step and their answers
    calls,               \* history: number of LLM calls made, per prompt
    behaved,             \* history: every answer so far was well-behaved
    d_items,             \* deduplicate argument `items`
    normalize_case,      \* EntityDeduplicator.normalize_case
    normalize_whitespace,\* EntityDeduplicator.normalize_whitespace
    d_result,            \* (unique_items, duplicate_map) returned by deduplicate
    d_graph,             \* _apply_deterministic_deduplication_to_graph argument
    d_out,               \* Graph it returns
    method,              \* EntityDeduplicator.method
    dedup_strategy,      \* dedup_cluster_graph argument `dedup_strategy`
    stages,              \* history: the steps dedup_cluster_graph has run
    a_graphs,            \* aggregate argument `graphs` / generate's `results`
    a_out                \* Graph built from them

vars == <<call, graph, item_type, entity_result, out_graph, pc, items,
          remaining_items, clusters, no_progress_count, to_process, batch,
          cluster_reps, item_assignments, result, rounds, accepted,
          validate_prompt, oracle_labels, probe, oracle, calls, behaved,
          d_items, normalize_case, normalize_whitespace, d_result, d_graph,
          d_out, method, dedup_strategy, stages, a_graphs, a_out>>

\* state of the deterministic deduplicator
dedup_vars == <<d_items, normalize_case, normalize_whitespace, d_result,
                d_graph, d_out, method, dedup_strategy, stages, a_graphs, a_out>>

\* state of dedup_cluster_graph beside its graphs
orchestrator_vars == <<dedup_strategy, stages>>

\* state of aggregate and of generate's merge
merge_vars == <<a_graphs, a_out>>

\* state of cluster_items and cluster_graph
cluster_vars == <<graph, item_type, entity_result, out_graph, items,
                  remaining_items, clusters, no_progress_count, to_process,
                  batch, cluster_reps, item_assignments, result, rounds, accepted,
                  validate_prompt, oracle_labels, probe, oracle, calls,
                  behaved>>

\* what is recorded of the LLM calls
probe_vars == <<oracle_labels, probe, oracle, calls, behaved>>

-----------------------------------------------------------------------------
(* Program constants *)

LOOP_N == 8

BATCH_SIZE == 10

(* Bounds of the model *)

\* cap on the number of clusters phase A may accept in a direct call
MaxAccepted == 2

\* the same cap for each of the two calls cluster_graph makes
MaxAcceptedInGraph == 1

\* labels a direct caller of cluster_items may pass
Labels == {"a", "b", "c"}

\* entity and edge labels of the graphs passed to cluster_graph
EntityLabels == {"a", "b", "c"}

EdgeLabels == {"p", "q"}

\* relations an input graph may hold
RelationPool == {<<"a", "p", "c">>, <<"b", "q", "c">>}

\* sets of more than MaxShuffled labels are iterated in one order only
MaxShuffled == 3

None == "None"

-----------------------------------------------------------------------------
(* LangChainRunner.predict_json: the LLM response is abstracted to the     *)
(* outcomes the code distinguishes.                                        *)
(*   "error"      llm.invoke raises (network error)                        *)
(*   "not_json"   json.loads raises JSONDecodeError -> returns None        *)
(*   "not_object" JSON parsed to a non-dict: data.get raises AttributeError*)
(*   "no_key"     dict without output_key: data.get returns None           *)
(*   "ok"         dict with output_key: its value is returned              *)

ResponseKinds == {"error", "not_json", "not_object", "no_key", "ok"}

\* responses whose "ok" value ranges over `values`; `dflt` fills the value
\* field of the responses that carry none
Responses(values, dflt) ==
    {[kind |-> k, value |-> dflt] : k \in ResponseKinds \ {"ok"}}
        \cup {[kind |-> "ok", value |-> v] : v \in values}

\* answer of predict_json: it raised, returned None, or returned a value
predict_json(response) ==
    CASE response.kind = "error"      -> [tag |-> "raise", value |-> response.value]
      [] response.kind = "not_json"   -> [tag |-> "none",  value |-> response.value]
      [] response.kind = "not_object" -> [tag |-> "raise", value |-> response.value]
      [] response.kind = "no_key"     -> [tag |-> "none",  value |-> response.value]
      [] OTHER                        -> [tag |-> "value", value |-> response.value]

\* `answer or []` followed by set(...)
OrEmpty(answer) == IF answer.tag = "value" THEN answer.value ELSE {}

-----------------------------------------------------------------------------
(* Helpers for Python containers *)

\* labels the oracle may answer with: those of the running call's kind,
\* whether or not they are in the set it was passed
Universe ==
    IF call = "cluster_items" THEN Labels
    ELSE IF item_type = "entities" THEN oracle_labels ELSE EdgeLabels

\* the callers and arguments that stay as they are inside cluster_items
frame == <<call, graph, item_type, entity_result, out_graph, items,
           oracle_labels, probe, dedup_vars>>

\* rounds and accepted observe a direct call of cluster_items
Observe(n) ==
    /\ rounds' = IF call = "cluster_items" /\ pc' # "raised" THEN rounds + n ELSE rounds
    /\ accepted' = IF call = "cluster_items" /\ pc = "A" /\ pc' # "raised"
                   THEN Len(clusters') ELSE accepted

\* the four predict_json calls of cluster_items, by output key
\* (lines 43, 59, 69, 107)
Prompts == {"cluster", "validated_items", "representative",
            "cluster_reps_that_items_belong_to"}

NoCalls == [p \in Prompts |-> 0]

\* no step taken yet
NoStep ==
    [pc |-> "none", clusters |-> <<>>, remaining_items |-> {},
     no_progress_count |-> 0, to_process |-> {}, batch |-> {}]

\* a step that calls no LLM
Silent ==
    [before         |-> NoStep,
     asked          |-> <<>>,
     item           |-> None,
     rep            |-> None,
     existing       |-> <<>>,
     potential_new_members |-> {},
     validated      |-> [tag |-> "unasked", value |-> {}],
     representative |-> [tag |-> "unasked", value |-> None]]

Count(asked, p) == Cardinality({i \in 1..Len(asked) : asked[i] = p})

\* where cluster_items is before a step
Before ==
    [pc |-> pc, clusters |-> clusters, remaining_items |-> remaining_items,
     no_progress_count |-> no_progress_count, to_process |-> to_process,
     batch |-> batch]

\* the calls `heard` lists were made by this step; `well` tells whether
\* none of them raised, every answer was a subset of what the call was
\* given and a chosen representative was a member of its cluster
Conducted(heard, well) ==
    /\ oracle' = IF probe = "answers"
                 THEN [heard EXCEPT !.before = Before] ELSE oracle
    /\ calls' = IF probe = "calls"
                THEN [p \in Prompts |-> calls[p] + Count(heard.asked, p)]
                ELSE calls
    /\ behaved' = IF probe = "conduct" THEN behaved /\ well ELSE behaved

\* the calls `heard` lists were made by this step and nothing is to be said
\* against their answers
Probe(heard) == Conducted(heard, TRUE)

Min(x, y) == IF x < y THEN x ELSE y

\* the entity labels, in the one order in which a set of more than
\* MaxShuffled of them is iterated
Alphabet == <<"a", "b", "c", "d", "e", "f", "g", "h", "i", "j", "k", "l",
              "m", "n">>

\* the orders in which a Python set may be iterated: every order of a set
\* of at most MaxShuffled elements, one order of a larger set
Orderings(S) ==
    IF Cardinality(S) <= MaxShuffled
    THEN {s \in [1..Cardinality(S) -> S] :
            \A i, j \in 1..Cardinality(S) : i # j => s[i] # s[j]}
    ELSE {SelectSeq(Alphabet, LAMBDA x : x \in S)}

\* the elements an iteration of S may start with
Heads(S) == IF S = {} THEN {} ELSE {order[1] : order \in Orderings(S)}

Cluster(representative, members) ==
    [representative |-> representative, members |-> members]

\* {c.representative: c for c in clusters}: index of the cluster a key maps
\* to (a later cluster with the same representative replaces an earlier one)
ClusterIndex(cs, rep) ==
    CHOOSE i \in 1..Len(cs) :
        /\ cs[i].representative = rep
        /\ \A k \in (i+1)..Len(cs) : cs[k].representative # rep

ClusterKeys(cs) == {cs[i].representative : i \in 1..Len(cs)}

\* {c.representative: c.members for c in clusters} as an insertion-ordered
\* dict: a key keeps the position of its first insertion and the value of
\* its last
final_clusters_dict(cs) ==
    LET F[i \in 0..Len(cs)] ==
          IF i = 0 THEN <<>>
          ELSE IF \A j \in 1..(i-1) : cs[j].representative # cs[i].representative
               THEN Append(F[i-1],
                      Cluster(cs[i].representative,
                              cs[ClusterIndex(cs, cs[i].representative)].members))
               ELSE F[i-1]
    IN F[Len(cs)]

NoAssignments == [x \in {} |-> None]

NoResult == [new_items |-> {}, clusters |-> <<>>]

-----------------------------------------------------------------------------
(* cluster_items, phase A: one iteration of the while loop (lines 30-82)   *)

\* an exception leaves cluster_items
Abort ==
    /\ pc' = "raised"
    /\ UNCHANGED <<frame, remaining_items, clusters, no_progress_count,
                   to_process, batch, cluster_reps, item_assignments, result>>

\* where control goes after an iteration: back to the while test, or on to
\* line 84 with items_to_process = list(remaining_items)
AfterIteration(rem, broke) ==
    IF broke \/ rem = {}
    THEN /\ pc' = "for"
         /\ to_process' = rem
    ELSE /\ pc' = "A"
         /\ UNCHANGED to_process

\* AcceptCluster leaving the validated items among the remaining ones
AcceptCluster_KeepRemaining(representative, validated_cluster) ==
    /\ Len(clusters) < (IF call = "cluster_items" THEN MaxAccepted
                                                    ELSE MaxAcceptedInGraph)
    /\ no_progress_count' = 0
    /\ clusters' = Append(clusters, Cluster(representative, validated_cluster))
    /\ UNCHANGED remaining_items
    /\ AfterIteration(remaining_items, FALSE)
    /\ UNCHANGED <<frame, batch, cluster_reps, item_assignments, result>>

\* AcceptCluster leaving no_progress_count as it was
AcceptCluster_NoReset(representative, validated_cluster) ==
    /\ Len(clusters) < (IF call = "cluster_items" THEN MaxAccepted
                                                    ELSE MaxAcceptedInGraph)
    /\ UNCHANGED no_progress_count
    /\ clusters' = Append(clusters, Cluster(representative, validated_cluster))
    /\ remaining_items' = remaining_items \ validated_cluster
    /\ AfterIteration(remaining_items \ validated_cluster, FALSE)
    /\ UNCHANGED <<frame, batch, cluster_reps, item_assignments, result>>

\* AcceptCluster keeping only the validated items that were still remaining
AcceptCluster_RemainingOnly(representative, validated_cluster) ==
    /\ Len(clusters) < (IF call = "cluster_items" THEN MaxAccepted
                                                    ELSE MaxAcceptedInGraph)
    /\ no_progress_count' = 0
    /\ clusters' = Append(clusters,
                      Cluster(representative, validated_cluster \cap remaining_items))
    /\ remaining_items' = remaining_items \ validated_cluster
    /\ AfterIteration(remaining_items \ validated_cluster, FALSE)
    /\ UNCHANGED <<frame, batch, cluster_reps, item_assignments, result>>

\* lines 64-77
AcceptCluster(representative, validated_cluster) ==
    /\ Len(clusters) < (IF call = "cluster_items" THEN MaxAccepted
                                                    ELSE MaxAcceptedInGraph)
    /\ no_progress_count' = 0
    /\ clusters' = Append(clusters, Cluster(representative, validated_cluster))
    /\ remaining_items' = remaining_items \ validated_cluster
    /\ AfterIteration(remaining_items \ validated_cluster, FALSE)
    /\ UNCHANGED <<frame, batch, cluster_reps, item_assignments, result>>

\* NoProgress leaving the loop one stalled iteration late
NoProgress_LateBreak ==
    /\ no_progress_count' = no_progress_count + 1
    /\ AfterIteration(remaining_items,
                      no_progress_count + 1 > LOOP_N \/ remaining_items = {})
    /\ UNCHANGED <<frame, remaining_items, clusters, batch, cluster_reps,
                   item_assignments, result>>

\* NoProgress leaving the loop one stalled iteration early
NoProgress_EarlyBreak ==
    /\ no_progress_count' = no_progress_count + 1
    /\ AfterIteration(remaining_items,
                      no_progress_count + 2 >= LOOP_N \/ remaining_items = {})
    /\ UNCHANGED <<frame, remaining_items, clusters, batch, cluster_reps,
                   item_assignments, result>>

\* lines 79-82
NoProgress ==
    /\ no_progress_count' = no_progress_count + 1
    /\ AfterIteration(remaining_items,
                      no_progress_count + 1 >= LOOP_N \/ remaining_items = {})
    /\ UNCHANGED <<frame, remaining_items, clusters, batch, cluster_reps,
                   item_assignments, result>>

\* lines 66-75: Cluster(representative=None, ...) fails pydantic validation
ChooseRepresentative(validated_cluster, heard, well) ==
    \E r3 \in Responses(Universe, None) :
        LET representative == predict_json(r3) IN
        /\ Conducted([heard EXCEPT !.asked = Append(@, "representative"),
                                   !.representative = representative],
                     /\ well
                     /\ representative.tag = "value"
                     /\ representative.value \in validated_cluster)
        /\ IF representative.tag = "value"
           THEN AcceptCluster(representative.value, validated_cluster)
           ELSE Abort

\* lines 56-77
ValidateSuggested(heard, suggested_cluster) ==
    \E r2 \in Responses(SUBSET Universe, {}) :
        LET answer == predict_json(r2)
            validated == [heard EXCEPT !.asked = Append(@, "validated_items"),
                                       !.validated = answer]
            well == /\ suggested_cluster \subseteq remaining_items
                    /\ OrEmpty(answer) \subseteq suggested_cluster
        IN IF answer.tag = "raise" THEN Abort /\ Conducted(validated, FALSE)
           ELSE IF Cardinality(OrEmpty(answer)) > 1
                THEN ChooseRepresentative(OrEmpty(answer), validated, well)
                ELSE NoProgress /\ Conducted(validated, well)

PhaseA ==
    /\ pc = "A"
    /\ remaining_items # {}
    /\ \E r1 \in Responses(SUBSET Universe, {}) :
        LET answer == predict_json(r1)
            proposed == [Silent EXCEPT !.asked = <<"cluster">>]
        IN IF answer.tag = "raise"
           THEN Abort /\ Conducted(proposed, FALSE) /\ UNCHANGED validate_prompt
           ELSE IF Cardinality(OrEmpty(answer)) > 0
                THEN /\ ValidateSuggested(proposed, OrEmpty(answer))
                     /\ validate_prompt' = "bound"
                ELSE NoProgress /\ Probe(proposed) /\ UNCHANGED validate_prompt
    /\ Observe(1)

-----------------------------------------------------------------------------
(* cluster_items, phase B: the batch loop (lines 84-188).                  *)
(* list(remaining_items) has an arbitrary order, so a batch is any subset  *)
(* of the right size and its items are evaluated in any order.  The        *)
(* elements of the batch_assign answer are read one per item (line 123)    *)
(* and nothing else reads them, so each is drawn when it is read:          *)
(*   cluster_reps = "default"  the answer was None or [] : [None]*len(batch)*)
(*   cluster_reps = "list"     a list with an element for the next item    *)
(*   cluster_reps = "ended"    a list shorter than the items read so far   *)

Singletons(order) ==
    [i \in 1..Len(order) |-> Cluster(order[i], {order[i]})]

\* lines 91-97
SingletonBatch(b) ==
    \E order \in Orderings(b) :
        /\ clusters' = clusters \o Singletons(order)
        /\ batch' = b
        /\ to_process' = to_process \ b
        /\ pc' = "for"
        /\ Probe(Silent)
        /\ UNCHANGED <<frame, remaining_items, no_progress_count,
                       cluster_reps, item_assignments, result>>

\* AskBatchAssign passing only the first cluster to batch_assign
AskBatchAssign_FirstOnly(b) ==
    \E r \in Responses({"[]", "[...]"}, "[]") :
        LET answer == predict_json(r) IN
        /\ Probe([Silent EXCEPT !.asked = <<"cluster_reps_that_items_belong_to">>,
                                !.existing = SubSeq(clusters, 1, 1)])
        /\ IF answer.tag = "raise" THEN Abort
           ELSE
             /\ cluster_reps' = IF answer.tag = "value" /\ answer.value = "[...]"
                                THEN "list" ELSE "default"
             /\ batch' = b
             /\ item_assignments' = NoAssignments
             /\ pc' = "eval"
             /\ UNCHANGED <<frame, remaining_items, clusters,
                            no_progress_count, to_process, result>>

\* lines 104-116
AskBatchAssign(b) ==
    \E r \in Responses({"[]", "[...]"}, "[]") :
        LET answer == predict_json(r) IN
        /\ Conducted([Silent EXCEPT !.asked = <<"cluster_reps_that_items_belong_to">>,
                                    !.existing = clusters],
                     answer.tag # "raise")
        /\ IF answer.tag = "raise" THEN Abort
           ELSE
             /\ cluster_reps' = IF answer.tag = "value" /\ answer.value = "[...]"
                                THEN "list" ELSE "default"
             /\ batch' = b
             /\ item_assignments' = NoAssignments
             /\ pc' = "eval"
             /\ UNCHANGED <<frame, remaining_items, clusters,
                            no_progress_count, to_process, result>>

\* BeginBatch calling batch_assign whether or not a cluster exists
BeginBatch_AlwaysAsk ==
    /\ pc = "for"
    /\ to_process # {}
    /\ \E b \in SUBSET to_process :
        /\ Cardinality(b) = Min(BATCH_SIZE, Cardinality(to_process))
        /\ AskBatchAssign(b)
    /\ UNCHANGED validate_prompt
    /\ Observe(1)

\* lines 87-116
BeginBatch ==
    /\ pc = "for"
    /\ to_process # {}
    /\ \E b \in SUBSET to_process :
        /\ Cardinality(b) = Min(BATCH_SIZE, Cardinality(to_process))
        /\ IF clusters = <<>> THEN SingletonBatch(b) ELSE AskBatchAssign(b)
    /\ UNCHANGED validate_prompt
    /\ Observe(1)

\* Assign adding the item to the members of its cluster at once
Assign_AtOnce(item, assigned, reps) ==
    /\ item_assignments' =
          [x \in DOMAIN item_assignments \cup {item} |->
              IF x = item THEN assigned ELSE item_assignments[x]]
    /\ cluster_reps' = reps
    /\ clusters' = [i \in 1..Len(clusters) |->
                        IF clusters[i].representative = assigned
                        THEN [clusters[i] EXCEPT !.members = @ \cup {item}]
                        ELSE clusters[i]]
    /\ UNCHANGED <<frame, pc, remaining_items, no_progress_count,
                   to_process, batch, result>>

\* item_assignments[item] = assigned
Assign(item, assigned, reps) ==
    /\ item_assignments' =
          [x \in DOMAIN item_assignments \cup {item} |->
              IF x = item THEN assigned ELSE item_assignments[x]]
    /\ cluster_reps' = reps
    /\ UNCHANGED <<frame, pc, remaining_items, clusters, no_progress_count,
                   to_process, batch, result>>

\* MergeValidated accepting any answer that holds the item and every member
MergeValidated_Superset(item, validated_items, potential_new_members) ==
    /\ item \in validated_items
    /\ potential_new_members \subseteq validated_items

\* line 149
MergeValidated(item, validated_items, potential_new_members) ==
    /\ item \in validated_items
    /\ Cardinality(validated_items) = Cardinality(potential_new_members)

\* ValidateMerge without the try/except around the call
ValidateMerge_Unguarded(item, target_cluster, reps, heard) ==
    IF validate_prompt = "unbound"
    THEN Abort /\ Probe(heard)
    ELSE \E r \in Responses(SUBSET Universe, {}) :
        LET answer == predict_json(r)
            potential_new_members == target_cluster.members \cup {item}
        IN /\ Probe([heard EXCEPT !.asked = <<"validated_items">>,
                                  !.validated = answer])
           /\ IF answer.tag = "raise" THEN Abort
              ELSE IF MergeValidated(item, OrEmpty(answer), potential_new_members)
                   THEN Assign(item, target_cluster.representative, reps)
                   ELSE Assign(item, None, reps)

\* lines 136-158: the validate call sits in try/except Exception; reading
\* validate_prompt before line 50 has assigned it raises UnboundLocalError
\* inside the try, before any call is made
ValidateMerge(item, target_cluster, reps, heard) ==
    IF validate_prompt = "unbound"
    THEN Assign(item, None, reps) /\ Probe(heard)
    ELSE \E r \in Responses(SUBSET Universe, {}) :
        LET answer == predict_json(r)
            potential_new_members == target_cluster.members \cup {item}
        IN /\ Conducted([heard EXCEPT !.asked = <<"validated_items">>,
                                      !.potential_new_members =
                                          potential_new_members,
                                      !.validated = answer],
                        /\ answer.tag # "raise"
                        /\ OrEmpty(answer) \subseteq potential_new_members)
           /\ IF /\ answer.tag # "raise"
                 /\ MergeValidated(item, OrEmpty(answer), potential_new_members)
              THEN Assign(item, target_cluster.representative, reps)
              ELSE Assign(item, None, reps)

\* lines 118-161 for one item whose suggested representative is rep
EvalWith(item, rep, reps) ==
    LET heard == [Silent EXCEPT !.item = item, !.rep = rep] IN
    IF rep # None /\ rep \in ClusterKeys(clusters)
    THEN LET target_cluster == clusters[ClusterIndex(clusters, rep)] IN
         IF item = target_cluster.representative \/ item \in target_cluster.members
         THEN Assign(item, target_cluster.representative, reps) /\ Probe(heard)
         ELSE ValidateMerge(item, target_cluster, reps, heard)
    ELSE Assign(item, None, reps) /\ Conducted(heard, rep = None)

EvalItem ==
    /\ pc = "eval"
    /\ UNCHANGED <<rounds, accepted, validate_prompt>>
    /\ \E item \in Heads(batch \ DOMAIN item_assignments) :
        IF cluster_reps = "list"
        THEN \/ \E rep \in Universe \cup {None} : EvalWith(item, rep, "list")
             \/ /\ item_assignments # NoAssignments
                /\ EvalWith(item, None, "ended")
        ELSE EvalWith(item, None, cluster_reps)

\* AddMembers putting the assigned items in place of the members
AddMembers_Replace(cs, assignments) ==
    [i \in 1..Len(cs) |->
        [cs[i] EXCEPT !.members =
            {item \in DOMAIN assignments :
                /\ assignments[item] # None
                /\ assignments[item] \in ClusterKeys(cs)
                /\ ClusterIndex(cs, assignments[item]) = i}]]

\* AddMembers adding nothing
AddMembers_Skip(cs, assignments) == cs

\* lines 165-171: cluster_map[assigned_rep].members.add(item)
AddMembers(cs, assignments) ==
    [i \in 1..Len(cs) |->
        [cs[i] EXCEPT !.members = @ \cup
            {item \in DOMAIN assignments :
                /\ assignments[item] # None
                /\ assignments[item] \in ClusterKeys(cs)
                /\ ClusterIndex(cs, assignments[item]) = i}]]

\* new_cluster_items without the test `item not in cluster_map`
new_cluster_items_Unguarded(cs, assignments) ==
    {item \in DOMAIN assignments :
        assignments[item] = None \/ assignments[item] \notin ClusterKeys(cs)}

\* lines 164-180
new_cluster_items(cs, assignments) ==
    {item \in DOMAIN assignments :
        /\ assignments[item] = None \/ assignments[item] \notin ClusterKeys(cs)
        /\ item \notin ClusterKeys(cs)}

\* lines 163-188
ApplyBatch ==
    /\ pc = "eval"
    /\ DOMAIN item_assignments = batch
    /\ \E order \in Orderings(new_cluster_items(clusters, item_assignments)) :
        clusters' = AddMembers(clusters, item_assignments) \o Singletons(order)
    /\ to_process' = to_process \ batch
    /\ pc' = "for"
    /\ Probe(Silent)
    /\ UNCHANGED <<frame, remaining_items, no_progress_count, batch,
                   cluster_reps, item_assignments, result, rounds, accepted,
                   validate_prompt>>

\* lines 190-196
Return ==
    /\ pc = "for"
    /\ to_process = {}
    /\ result' = [new_items |-> ClusterKeys(clusters),
                  clusters  |-> final_clusters_dict(clusters)]
    /\ pc' = "returned"
    /\ Probe(Silent)
    /\ UNCHANGED <<frame, remaining_items, clusters, no_progress_count,
                   to_process, batch, cluster_reps, item_assignments,
                   rounds, accepted, validate_prompt>>

-----------------------------------------------------------------------------
(* cluster_graph (lines 198-244)                                           *)

NoGraph == [entities |-> {}, edges |-> {}, relations |-> {}]

NoOutGraph ==
    [entities |-> {}, edges |-> {}, relations |-> {},
     entity_clusters |-> <<>>, edge_clusters |-> <<>>]

\* entry of cluster_items (lines 24-30)
EnterClusterItems(its, kind) ==
    /\ item_type' = kind
    /\ items' = its
    /\ remaining_items' = its
    /\ clusters' = <<>>
    /\ no_progress_count' = 0
    /\ pc' = IF its = {} THEN "for" ELSE "A"
    /\ to_process' = {}
    /\ batch' = {}
    /\ cluster_reps' = "none"
    /\ item_assignments' = NoAssignments
    /\ result' = NoResult
    /\ validate_prompt' = "unbound"

\* Relabelled that leaves every label as it is written
Relabelled_Keep(x, new_items, clusters_dict) == x

\* lines 216-220: the representative a label is replaced by
\*   if s not in entities:
\*     for rep, cluster in entity_clusters.items():
\*       if s in cluster: s = rep; break
Relabelled(x, new_items, clusters_dict) ==
    LET owners == {i \in 1..Len(clusters_dict) : x \in clusters_dict[i].members} IN
    IF x \in new_items \/ owners = {} THEN x
    ELSE clusters_dict[CHOOSE i \in owners : \A j \in owners : i <= j].representative

\* lines 213-236
RelabelRelations(relations, entities, entity_clusters, edges, edge_clusters) ==
    {<<Relabelled(r[1], entities, entity_clusters),
       Relabelled(r[2], edges, edge_clusters),
       Relabelled(r[3], entities, entity_clusters)>> : r \in relations}

\* lines 209-210: the entity call has returned, the edge call starts
ClusterEdges ==
    /\ call = "cluster_graph"
    /\ pc = "returned"
    /\ item_type = "entities"
    /\ entity_result' = result
    /\ EnterClusterItems(graph.edges, "edges")
    /\ Probe(Silent)
    /\ UNCHANGED <<call, graph, out_graph, rounds, accepted, oracle_labels,
                   probe, dedup_vars>>

\* Relabel writing the new sets into the graph it was passed
Relabel_InPlace ==
    /\ call = "cluster_graph"
    /\ pc = "returned"
    /\ item_type = "edges"
    /\ out_graph' =
          [entities        |-> entity_result.new_items,
           edges           |-> result.new_items,
           relations       |-> RelabelRelations(graph.relations,
                                  entity_result.new_items, entity_result.clusters,
                                  result.new_items, result.clusters),
           entity_clusters |-> entity_result.clusters,
           edge_clusters   |-> result.clusters]
    /\ graph' = [entities  |-> out_graph'.entities,
                 edges     |-> out_graph'.edges,
                 relations |-> out_graph'.relations]
    /\ pc' = "graph_returned"
    /\ UNCHANGED <<call, item_type, entity_result, items, remaining_items,
                   clusters, no_progress_count, to_process, batch, cluster_reps,
                   item_assignments, result, rounds, accepted,
                   validate_prompt, probe_vars, dedup_vars>>

\* lines 210-244: the edge call has returned
Relabel ==
    /\ call = "cluster_graph"
    /\ pc = "returned"
    /\ item_type = "edges"
    /\ out_graph' =
          [entities        |-> entity_result.new_items,
           edges           |-> result.new_items,
           relations       |-> RelabelRelations(graph.relations,
                                  entity_result.new_items, entity_result.clusters,
                                  result.new_items, result.clusters),
           entity_clusters |-> entity_result.clusters,
           edge_clusters   |-> result.clusters]
    /\ pc' = "graph_returned"
    /\ UNCHANGED <<call, graph, item_type, entity_result, items, remaining_items,
                   clusters, no_progress_count, to_process, batch, cluster_reps,
                   item_assignments, result, rounds, accepted,
                   validate_prompt, probe_vars, dedup_vars>>

-----------------------------------------------------------------------------
(* EntityDeduplicator (deduplication.py).  A label is the sequence of its  *)
(* characters.                                                             *)

\* labels handed to the deduplicator
Pool ==
    { <<"a", " ", "b">>,
      <<"A", " ", "b">>,
      <<" ", "a", " ", " ", "b", " ">>,
      <<"a", "\t", "b">>,
      <<"a", "b">>,
      <<"A", "b">>,
      <<"a">>,
      <<"A">>,
      <<>>,
      <<" ">> }

\* cap on the length of the list handed to deduplicate
MaxItems == 3

\* str.isspace for the characters of Pool
isspace(c) == c \in {" ", "\t"}

\* text.split(): the maximal runs of non-whitespace characters
split(text) ==
    LET F[i \in 0..Len(text)] ==
          IF i = 0 THEN [words |-> <<>>, word |-> <<>>]
          ELSE IF isspace(text[i])
               THEN [words |-> IF F[i-1].word = <<>> THEN F[i-1].words
                               ELSE Append(F[i-1].words, F[i-1].word),
                     word  |-> <<>>]
               ELSE [words |-> F[i-1].words,
                     word  |-> Append(F[i-1].word, text[i])]
        last == F[Len(text)]
    IN IF last.word = <<>> THEN last.words ELSE Append(last.words, last.word)

\* " ".join(words)
join(words) ==
    LET F[i \in 0..Len(words)] ==
          IF i = 0 THEN <<>>
          ELSE IF i = 1 THEN words[1]
          ELSE F[i-1] \o <<" ">> \o words[i]
    IN F[Len(words)]

\* str.lower for the characters of Pool
lower(text) ==
    [i \in 1..Len(text) |-> IF text[i] = "A" THEN "a" ELSE text[i]]

\* _normalize lowercasing whatever normalize_case says
_normalize_AlwaysLower(text, case, whitespace) ==
    lower(IF whitespace THEN join(split(text)) ELSE text)

\* _normalize without text.lower()
_normalize_KeepCase(text, case, whitespace) ==
    IF whitespace THEN join(split(text)) ELSE text

\* _normalize joining the words with "" instead of " "
_normalize_JoinNoSpace(text, case, whitespace) ==
    LET words == split(text)
        glued == LET F[i \in 0..Len(words)] ==
                       IF i = 0 THEN <<>> ELSE F[i-1] \o words[i]
                 IN F[Len(words)]
        collapsed == IF whitespace THEN glued ELSE text
    IN IF case THEN lower(collapsed) ELSE collapsed

\* lines 67-72
_normalize(text, case, whitespace) ==
    LET collapsed == IF whitespace THEN join(split(text)) ELSE text
    IN IF case THEN lower(collapsed) ELSE collapsed

\* line 108: hashlib.md5(normalized.encode('utf-8')).hexdigest(), tabulated
\* for every normalized form of a label of Pool
hexdigest(text) ==
    CASE text = <<"a", " ", "b">> -> "0cc9cd4dd26c5137b675a0d819cb9ab0"
      [] text = <<"A", " ", "b">> -> "bc79052a3f1515cb9df3d2092d031fe0"
      [] text = <<" ", "a", " ", " ", "b", " ">> -> "2b726d56f883ee0b1e33702ac98f6fb0"
      [] text = <<"a", "\t", "b">> -> "6f7f0b434651658d5d07ec3764180020"
      [] text = <<"a", "b">> -> "187ef4436122d1cc2f40dc2b92f0eba0"
      [] text = <<"A", "b">> -> "0e4c46df226b9c0cb391311c54f28efe"
      [] text = <<"a">> -> "0cc175b9c0f1b6a831c399e269772661"
      [] text = <<"A">> -> "7fc56270e7a70fa81a5935b72eacbe29"
      [] text = <<>> -> "d41d8cd98f00b204e9800998ecf8427e"
      [] text = <<" ">> -> "7215ee9c7d9dc229d2921a40e899ec5f"

\* d[k] = v on a dict
Put(d, k, v) == [x \in DOMAIN d \cup {k} |-> IF x = k THEN v ELSE d[x]]

EmptyDict == [x \in {} |-> <<>>]

NoDedupResult == [unique_items |-> <<>>, duplicate_map |-> EmptyDict]

\* lines 98-100
DedupStart ==
    [seen_hashes |-> EmptyDict, unique_items |-> <<>>, duplicate_map |-> EmptyDict]

\* DedupItem remembering the hash of the last canonical label only
DedupItem_LastSeenOnly(st, item, case, whitespace) ==
    LET normalized == _normalize(item, case, whitespace)
        item_hash  == hexdigest(normalized)
    IN IF item_hash \in DOMAIN st.seen_hashes
       THEN [st EXCEPT !.duplicate_map = Put(@, item, st.seen_hashes[item_hash])]
       ELSE [st EXCEPT !.seen_hashes = Put(EmptyDict, item_hash, item),
                       !.unique_items = Append(@, item)]

\* DedupItem appending the item to unique_items on both branches
DedupItem_AppendAlways(st, item, case, whitespace) ==
    LET normalized == _normalize(item, case, whitespace)
        item_hash  == hexdigest(normalized)
    IN IF item_hash \in DOMAIN st.seen_hashes
       THEN [st EXCEPT !.duplicate_map = Put(@, item, st.seen_hashes[item_hash]),
                       !.unique_items = Append(@, item)]
       ELSE [st EXCEPT !.seen_hashes = Put(@, item_hash, item),
                       !.unique_items = Append(@, item)]

\* DedupItem using the normalized form as the key of duplicate_map
DedupItem_KeyNormalized(st, item, case, whitespace) ==
    LET normalized == _normalize(item, case, whitespace)
        item_hash  == hexdigest(normalized)
    IN IF item_hash \in DOMAIN st.seen_hashes
       THEN [st EXCEPT !.duplicate_map = Put(@, normalized, st.seen_hashes[item_hash])]
       ELSE [st EXCEPT !.seen_hashes = Put(@, item_hash, item),
                       !.unique_items = Append(@, item)]

\* DedupItem appending the normalized form instead of the item
DedupItem_AppendNormalized(st, item, case, whitespace) ==
    LET normalized == _normalize(item, case, whitespace)
        item_hash  == hexdigest(normalized)
    IN IF item_hash \in DOMAIN st.seen_hashes
       THEN [st EXCEPT !.duplicate_map = Put(@, item, st.seen_hashes[item_hash])]
       ELSE [st EXCEPT !.seen_hashes = Put(@, item_hash, item),
                       !.unique_items = Append(@, normalized)]

\* lines 102-118: the loop body for one item
DedupItem(st, item, case, whitespace) ==
    LET normalized == _normalize(item, case, whitespace)
        item_hash  == hexdigest(normalized)
    IN IF item_hash \in DOMAIN st.seen_hashes
       THEN [st EXCEPT !.duplicate_map = Put(@, item, st.seen_hashes[item_hash])]
       ELSE [st EXCEPT !.seen_hashes = Put(@, item_hash, item),
                       !.unique_items = Append(@, item)]

\* lines 74-125
_deduplicate_deterministic(its, case, whitespace) ==
    LET F[i \in 0..Len(its)] ==
          IF i = 0 THEN DedupStart
          ELSE DedupItem(F[i-1], its[i], case, whitespace)
    IN [unique_items  |-> F[Len(its)].unique_items,
        duplicate_map |-> F[Len(its)].duplicate_map]

\* lines 127-158: the placeholder returns items, {}
_deduplicate_semantic(its) ==
    [unique_items |-> its, duplicate_map |-> EmptyDict]

\* the values a caller may pass as method; "unknown" is any value that is
\* no member of DeduplicationMethod
Methods == {"deterministic", "semantic", "unknown"}

\* lines 60-65: the dispatch on self.method
DispatchMethod ==
    IF method = "deterministic"
    THEN /\ d_result' = _deduplicate_deterministic(d_items, normalize_case,
                                                   normalize_whitespace)
         /\ pc' = "returned"
    ELSE IF method = "semantic"
    THEN /\ d_result' = _deduplicate_semantic(d_items)
         /\ pc' = "returned"
    ELSE /\ d_result' = d_result
         /\ pc' = "raised"

\* EntityDeduplicator(method, ...).deduplicate(items)
Deduplicate ==
    /\ call = "deduplicate"
    /\ pc = "called"
    /\ DispatchMethod
    /\ UNCHANGED <<call, cluster_vars, d_items, normalize_case,
                   normalize_whitespace, d_graph, d_out, method,
                   orchestrator_vars, merge_vars>>

\* lines 195-197: DeduplicationMethod(method) raises ValueError for a string
\* that is no value of the enum, before the deduplicator is built
DeduplicateEntities ==
    /\ call = "deduplicate_entities"
    /\ pc = "called"
    /\ IF method \in {"deterministic", "semantic"}
       THEN DispatchMethod
       ELSE /\ d_result' = d_result
            /\ pc' = "raised"
    /\ UNCHANGED <<call, cluster_vars, d_items, normalize_case,
                   normalize_whitespace, d_graph, d_out, method,
                   orchestrator_vars, merge_vars>>

\* the deterministic deduplicator called again on the unique_items it
\* returned, with the same options
DeduplicateOutput ==
    /\ call = "deduplicate"
    /\ pc = "returned"
    /\ method = "deterministic"
    /\ d_items' = d_result.unique_items
    /\ d_result' = _deduplicate_deterministic(d_result.unique_items,
                                              normalize_case, normalize_whitespace)
    /\ pc' = "rerun"
    /\ UNCHANGED <<call, cluster_vars, normalize_case, normalize_whitespace,
                   d_graph, d_out, method, orchestrator_vars, merge_vars>>

-----------------------------------------------------------------------------
(* _apply_deterministic_deduplication_to_graph (_3_deduplicate.py:24-67)   *)

\* entity and edge labels of the graphs handed to the deterministic pass
DedupEntityLabels == {<<"a">>, <<"A">>, <<"a", "b">>}

DedupEdgeLabels == {<<"a", " ", "b">>, <<"A", " ", "b">>}

\* cap on the number of relations of such a graph
MaxDedupRelations == 2

\* an empty cluster map
EmptyClusters == <<>>

\* the cluster maps (entity_clusters, edge_clusters) an input graph may carry:
\* empty ones, or maps left by an earlier clustering pass
DedupClusterMaps ==
    { <<EmptyClusters, EmptyClusters>>,
      << <<Cluster(<<"a">>, {<<"a">>, <<"A">>})>>,
         <<Cluster(<<"a", " ", "b">>, {<<"A", " ", "b">>})>> >> }

\* the elements of a list
Range(seq) == {seq[i] : i \in 1..Len(seq)}

\* d.get(k) where the code has d.get(k, k)
GetOrSelf_NoDefault(d, k) == IF k \in DOMAIN d THEN d[k] ELSE <<"N", "o", "n", "e">>

\* d.get(k, k)
GetOrSelf(d, k) == IF k \in DOMAIN d THEN d[k] ELSE k

\* AllInDeduplicatedSets with the membership test left out
AllInDeduplicatedSets_Unchecked(subject, predicate, obj, unique_entities, unique_edges) ==
    TRUE

\* lines 55-57
AllInDeduplicatedSets(subject, predicate, obj, unique_entities, unique_edges) ==
    /\ subject \in Range(unique_entities)
    /\ predicate \in Range(unique_edges)
    /\ obj \in Range(unique_entities)

\* updated_relations keeping the relations as they are written
updated_relations_Unmapped(relations, unique_entities, entity_map, unique_edges, edge_map) ==
    {r \in relations :
        AllInDeduplicatedSets(r[1], r[2], r[3], unique_entities, unique_edges)}

\* updated_relations leaving the predicate as it is written
updated_relations_KeepPredicate(relations, unique_entities, entity_map, unique_edges, edge_map) ==
    {t \in {<<GetOrSelf(entity_map, r[1]),
              r[2],
              GetOrSelf(entity_map, r[3])>> : r \in relations} :
        AllInDeduplicatedSets(t[1], t[2], t[3], unique_entities, unique_edges)}

\* lines 47-58
updated_relations(relations, unique_entities, entity_map, unique_edges, edge_map) ==
    {t \in {<<GetOrSelf(entity_map, r[1]),
              GetOrSelf(edge_map, r[2]),
              GetOrSelf(entity_map, r[3])>> : r \in relations} :
        AllInDeduplicatedSets(t[1], t[2], t[3], unique_entities, unique_edges)}

\* lines 38-67 with list(graph.entities) = entity_list and
\* list(graph.edges) = edge_list
DeduplicatedGraph(g, entity_list, edge_list) ==
    LET e == _deduplicate_deterministic(entity_list, TRUE, TRUE)
        p == _deduplicate_deterministic(edge_list, TRUE, TRUE)
    IN [entities  |-> Range(e.unique_items),
        edges     |-> Range(p.unique_items),
        relations |-> updated_relations(g.relations,
                         e.unique_items, e.duplicate_map,
                         p.unique_items, p.duplicate_map),
        entity_clusters |-> g.entity_clusters,
        edge_clusters   |-> g.edge_clusters]

\* the whole function; a set is listed in an arbitrary order
ApplyDeterministicDedup ==
    /\ call = "dedup_graph"
    /\ pc = "called"
    /\ \E entity_list \in Orderings(d_graph.entities) :
       \E edge_list \in Orderings(d_graph.edges) :
          d_out' = DeduplicatedGraph(d_graph, entity_list, edge_list)
    /\ pc' = "returned"
    /\ UNCHANGED <<call, cluster_vars, d_items, normalize_case,
                   normalize_whitespace, d_result, d_graph, method,
                   orchestrator_vars, merge_vars>>

-----------------------------------------------------------------------------
(* dedup_cluster_graph (_3_deduplicate.py:70-123)                          *)

\* the values a caller may pass as dedup_strategy; "unknown" is any value
\* that is no member of DeduplicationStrategy
Strategies == {"deterministic", "semantic_hash", "both", "unknown"}

\* lines 95-101
EmptyGraph ==
    [entities |-> {}, edges |-> {}, relations |-> {},
     entity_clusters |-> EmptyClusters, edge_clusters |-> EmptyClusters]

\* IsEmptyGraph that never holds
IsEmptyGraph_Never(g) == FALSE

\* line 93
IsEmptyGraph(g) == Cardinality(g.entities) = 0 /\ Cardinality(g.edges) = 0

\* the graphs over the labels of g in which every relation references only
\* listed labels
ConsistentSubgraphs(g) ==
    {[entities |-> e, edges |-> p, relations |-> r,
      entity_clusters |-> c[1], edge_clusters |-> c[2]] :
        e \in SUBSET g.entities, p \in SUBSET g.edges,
        r \in SUBSET g.relations,
        c \in DedupClusterMaps}

\* kg_gen.utils.deduplicate.deduplicate_graph, an external collaborator:
\* accepts a Graph and returns a deduplicated Graph that keeps the Graph
\* invariant; the results it may give
deduplicate_graph(g) ==
    {h \in ConsistentSubgraphs(g) :
        /\ \A t \in h.relations :
              t[1] \in h.entities /\ t[2] \in h.edges /\ t[3] \in h.entities
        /\ h.entity_clusters = g.entity_clusters
        /\ h.edge_clusters = g.edge_clusters}

\* kg_gen.utils.llm_deduplicate.LLMDeduplicate(...).cluster() followed by
\* .deduplicate(), an external collaborator: the graphs it may return
LLMDeduplicate(g) ==
    {h \in ConsistentSubgraphs(g) :
        \A t \in h.relations :
            t[1] \in h.entities /\ t[2] \in h.edges /\ t[3] \in h.entities}

\* a step dedup_cluster_graph has run, the graph it was given and the graph
\* it returned
Stage(step, given, returned) ==
    [step |-> step, given |-> given, returned |-> returned]

\* InitialDedup whose BOTH branch hands the input graph, not the output of
\* the deterministic pass, to deduplicate_graph
InitialDedup_BothOnInput ==
    /\ call = "dedup_cluster_graph"
    /\ pc = "called"
    /\ ~IsEmptyGraph(d_graph)
    /\ dedup_strategy = "both"
    /\ \E entity_list \in Orderings(d_graph.entities) :
       \E edge_list \in Orderings(d_graph.edges) :
       \E h \in deduplicate_graph(d_graph) :
          /\ d_out' = h
          /\ stages' = stages \o
                <<Stage("deterministic", d_graph,
                        DeduplicatedGraph(d_graph, entity_list, edge_list)),
                  Stage("semantic_hash", d_graph, h)>>
    /\ pc' = "deduplicated"
    /\ UNCHANGED <<call, cluster_vars, d_items, normalize_case,
                   normalize_whitespace, d_result, d_graph, method,
                   dedup_strategy, merge_vars>>

\* lines 92-116: the short-circuit and the initial deduplication
InitialDedup ==
    /\ call = "dedup_cluster_graph"
    /\ pc = "called"
    /\ IF IsEmptyGraph(d_graph)
       THEN /\ d_out' = EmptyGraph
            /\ stages' = stages
            /\ pc' = "returned"
       ELSE IF dedup_strategy = "deterministic"
       THEN /\ \E entity_list \in Orderings(d_graph.entities) :
               \E edge_list \in Orderings(d_graph.edges) :
                  d_out' = DeduplicatedGraph(d_graph, entity_list, edge_list)
            /\ stages' = Append(stages, Stage("deterministic", d_graph, d_out'))
            /\ pc' = "deduplicated"
       ELSE IF dedup_strategy = "semantic_hash"
       THEN /\ d_out' \in deduplicate_graph(d_graph)
            /\ stages' = Append(stages, Stage("semantic_hash", d_graph, d_out'))
            /\ pc' = "deduplicated"
       ELSE IF dedup_strategy = "both"
       THEN /\ \E entity_list \in Orderings(d_graph.entities) :
               \E edge_list \in Orderings(d_graph.edges) :
                  LET deduplicated_graph ==
                        DeduplicatedGraph(d_graph, entity_list, edge_list)
                  IN /\ d_out' \in deduplicate_graph(deduplicated_graph)
                     /\ stages' = stages \o
                           <<Stage("deterministic", d_graph, deduplicated_graph),
                             Stage("semantic_hash", deduplicated_graph, d_out')>>
            /\ pc' = "deduplicated"
       ELSE /\ d_out' = d_out
            /\ stages' = stages
            /\ pc' = "raised"
    /\ UNCHANGED <<call, cluster_vars, d_items, normalize_case,
                   normalize_whitespace, d_result, d_graph, method,
                   dedup_strategy, merge_vars>>

\* lines 118-123: the LLM-based clustering of the deduplicated graph
LLMCluster ==
    /\ call = "dedup_cluster_graph"
    /\ pc = "deduplicated"
    /\ d_out' \in LLMDeduplicate(d_out)
    /\ stages' = Append(stages, Stage("llm", d_out, d_out'))
    /\ pc' = "returned"
    /\ UNCHANGED <<call, cluster_vars, d_items, normalize_case,
                   normalize_whitespace, d_result, d_graph, method,
                   dedup_strategy, merge_vars>>

-----------------------------------------------------------------------------
(* KGGenLangChain.aggregate and the merge of chunk results in generate     *)
(* (kg_gen_langchain.py)                                                   *)

\* cap on the number of graphs (or chunk results) merged in one call
MaxGraphs == 2

\* the partial graphs handed to aggregate
PartialGraphs ==
    {[entities |-> e, edges |-> p, relations |-> r] :
        e \in SUBSET {"a", "b"}, p \in SUBSET {"p", "q"},
        r \in SUBSET {<<"a", "p", "b">>}}

\* the (chunk_entities, chunk_relations) pairs process_chunk may return
ChunkResults ==
    {[entities |-> e, relations |-> r] :
        e \in SUBSET {"a", "b"},
        r \in SUBSET {<<"a", "p", "b">>, <<"b", "q", "a">>}}

\* aggregate keeping only the sets of the graph it saw last
aggregate_LastWins(graphs) ==
    IF graphs = <<>> THEN [entities |-> {}, relations |-> {}, edges |-> {}]
    ELSE [entities  |-> graphs[Len(graphs)].entities,
          relations |-> graphs[Len(graphs)].relations,
          edges     |-> graphs[Len(graphs)].edges]

\* lines 127-135
aggregate(graphs) ==
    LET F[i \in 0..Len(graphs)] ==
          IF i = 0 THEN [entities |-> {}, relations |-> {}, edges |-> {}]
          ELSE [entities  |-> F[i-1].entities \cup graphs[i].entities,
                relations |-> F[i-1].relations \cup graphs[i].relations,
                edges     |-> F[i-1].edges \cup graphs[i].edges]
    IN F[Len(graphs)]

\* lines 72-91 with results = list(executor.map(process_chunk, chunks))
merge_chunks(results) ==
    LET F[i \in 0..Len(results)] ==
          IF i = 0 THEN [entities |-> {}, relations |-> {}]
          ELSE [entities  |-> F[i-1].entities \cup results[i].entities,
                relations |-> F[i-1].relations \cup results[i].relations]
        merged == F[Len(results)]
    IN [entities  |-> merged.entities,
        relations |-> merged.relations,
        edges     |-> {rel[2] : rel \in merged.relations}]

\* KGGenLangChain.aggregate(graphs)
Aggregate ==
    /\ call = "aggregate"
    /\ pc = "called"
    /\ a_out' = aggregate(a_graphs)
    /\ pc' = "returned"
    /\ UNCHANGED <<call, cluster_vars, d_items, normalize_case,
                   normalize_whitespace, d_result, d_graph, d_out, method,
                   orchestrator_vars, a_graphs>>

\* KGGenLangChain.generate with a chunk_size: the merge of the chunk results
MergeChunks ==
    /\ call = "generate"
    /\ pc = "called"
    /\ a_out' = merge_chunks(a_graphs)
    /\ pc' = "returned"
    /\ UNCHANGED <<call, cluster_vars, d_items, normalize_case,
                   normalize_whitespace, d_result, d_graph, d_out, method,
                   orchestrator_vars, a_graphs>>

-----------------------------------------------------------------------------
(* Specifications *)

\* the deduplicator is not in use
DedupIdle ==
    /\ d_items = <<>>
    /\ normalize_case = TRUE
    /\ normalize_whitespace = TRUE
    /\ d_result = NoDedupResult
    /\ d_graph = NoGraph
    /\ d_out = NoGraph
    /\ method = "deterministic"
    /\ dedup_strategy = "semantic_hash"
    /\ stages = <<>>
    /\ a_graphs = <<>>
    /\ a_out = NoGraph

\* a direct call cluster_items(runner, items)
Init ==
    /\ call = "cluster_items"
    /\ DedupIdle
    /\ graph = NoGraph
    /\ item_type = "entities"
    /\ entity_result = NoResult
    /\ out_graph = NoOutGraph
    /\ items \in SUBSET Labels
    /\ remaining_items = items
    /\ clusters = <<>>
    /\ no_progress_count = 0
    /\ pc = IF items = {} THEN "for" ELSE "A"
    /\ to_process = {}
    /\ batch = {}
    /\ cluster_reps = "none"
    /\ item_assignments = NoAssignments
    /\ result = NoResult
    /\ rounds = 0
    /\ accepted = 0
    /\ validate_prompt = "unbound"
    /\ oracle_labels = Labels
    /\ probe = "off"
    /\ oracle = Silent
    /\ calls = NoCalls
    /\ behaved = TRUE

Next == PhaseA \/ BeginBatch \/ EvalItem \/ ApplyBatch \/ Return

Spec == Init /\ [][Next]_vars

\* the graphs cluster_graph is called with: any entities, edges and
\* relations, whether or not the relations use only listed labels
Graphs ==
    {[entities |-> e, edges |-> p, relations |-> r] :
        e \in SUBSET EntityLabels, p \in SUBSET EdgeLabels,
        r \in SUBSET RelationPool}

\* a call cluster_graph(runner, graph), at the entry of its first
\* cluster_items call
InitGraph ==
    /\ call = "cluster_graph"
    /\ DedupIdle
    /\ graph \in Graphs
    /\ item_type = "entities"
    /\ entity_result = NoResult
    /\ out_graph = NoOutGraph
    /\ items = graph.entities
    /\ remaining_items = items
    /\ clusters = <<>>
    /\ no_progress_count = 0
    /\ pc = IF items = {} THEN "for" ELSE "A"
    /\ to_process = {}
    /\ batch = {}
    /\ cluster_reps = "none"
    /\ item_assignments = NoAssignments
    /\ result = NoResult
    /\ rounds = 0
    /\ accepted = 0
    /\ validate_prompt = "unbound"
    /\ oracle_labels = EntityLabels
    /\ probe = "off"
    /\ oracle = Silent
    /\ calls = NoCalls
    /\ behaved = TRUE

NextGraph ==
    PhaseA \/ BeginBatch \/ EvalItem \/ ApplyBatch \/ Return \/ ClusterEdges \/ Relabel

SpecGraph == InitGraph /\ [][NextGraph]_vars

\* the graphs in which every relation uses only listed labels
ConsistentGraphs ==
    {g \in Graphs :
        \A r \in g.relations :
            r[1] \in g.entities /\ r[2] \in g.edges /\ r[3] \in g.entities}

\* a call cluster_graph(runner, graph) with the conduct of the LLM recorded
InitConduct ==
    /\ DedupIdle
    /\ call = "cluster_graph"
    /\ graph \in Graphs
    /\ items = graph.entities
    /\ item_type = "entities"
    /\ entity_result = NoResult
    /\ out_graph = NoOutGraph
    /\ remaining_items = items
    /\ clusters = <<>>
    /\ no_progress_count = 0
    /\ pc = IF items = {} THEN "for" ELSE "A"
    /\ to_process = {}
    /\ batch = {}
    /\ cluster_reps = "none"
    /\ item_assignments = NoAssignments
    /\ result = NoResult
    /\ rounds = 0
    /\ accepted = 0
    /\ validate_prompt = "unbound"
    /\ oracle_labels = EntityLabels
    /\ probe = "conduct"
    /\ oracle = Silent
    /\ calls = NoCalls
    /\ behaved = TRUE

NextConduct ==
    PhaseA \/ BeginBatch \/ EvalItem \/ ApplyBatch \/ Return \/ ClusterEdges \/ Relabel

SpecConduct == InitConduct /\ [][NextConduct]_vars

\* labels the LLM may mention when its calls are recorded
OracleLabels == {"a", "b", "c", "d"}

\* entities of the graphs clustered with the calls recorded
ProbedEntities == {"c", "d"}

\* the runs with the calls recorded: the entities of the graph, what is
\* recorded, and the labels the LLM may mention.  The answers are recorded
\* of an LLM free to mention entities and other labels; the calls are
\* counted of an LLM that has only empty answers and of one that mentions
\* the entities.
ProbedRuns ==
    {[entities |-> {"c"}, probe |-> "answers", labels |-> OracleLabels],
     [entities |-> ProbedEntities, probe |-> "answers",
      labels |-> OracleLabels \ {"d"}]}
    \cup {[entities |-> e, probe |-> "calls", labels |-> {}] :
              e \in SUBSET ProbedEntities}
    \cup {[entities |-> ProbedEntities, probe |-> "calls",
           labels |-> ProbedEntities]}

\* a call cluster_graph(runner, graph) with the LLM calls recorded
InitOracle ==
    /\ call = "cluster_graph"
    /\ DedupIdle
    /\ \E run \in ProbedRuns :
        /\ graph = [entities |-> run.entities, edges |-> {}, relations |-> {}]
        /\ probe = run.probe
        /\ oracle_labels = run.labels
    /\ item_type = "entities"
    /\ entity_result = NoResult
    /\ out_graph = NoOutGraph
    /\ items = graph.entities
    /\ remaining_items = items
    /\ clusters = <<>>
    /\ no_progress_count = 0
    /\ pc = IF items = {} THEN "for" ELSE "A"
    /\ to_process = {}
    /\ batch = {}
    /\ cluster_reps = "none"
    /\ item_assignments = NoAssignments
    /\ result = NoResult
    /\ rounds = 0
    /\ accepted = 0
    /\ validate_prompt = "unbound"
    /\ oracle = Silent
    /\ calls = NoCalls
    /\ behaved = TRUE

NextOracle ==
    PhaseA \/ BeginBatch \/ EvalItem \/ ApplyBatch \/ Return \/ ClusterEdges \/ Relabel

SpecOracle == InitOracle /\ [][NextOracle]_vars

\* entities the LLM never mentions
Fillers == {"e", "f", "g", "h", "i", "j", "k", "l", "m", "n"}

\* graphs of more than BATCH_SIZE entities, each with the labels the LLM
\* may mention: one whose entities c and d the LLM may put together, and
\* one whose entity c the LLM may put together with a and b
BatchedRuns ==
    {[entities |-> {"c", "d"} \cup (Fillers \ {"n"}), labels |-> {"c", "d"}],
     [entities |-> {"c"} \cup Fillers,                labels |-> {"a", "b", "c"}]}

\* a call cluster_graph(runner, graph) that takes more than one batch,
\* with the answers of the LLM recorded
InitBatches ==
    /\ call = "cluster_graph"
    /\ DedupIdle
    /\ item_type = "entities"
    /\ entity_result = NoResult
    /\ out_graph = NoOutGraph
    /\ \E run \in BatchedRuns :
        /\ graph = [entities |-> run.entities, edges |-> {}, relations |-> {}]
        /\ oracle_labels = run.labels
    /\ items = graph.entities
    /\ remaining_items = items
    /\ clusters = <<>>
    /\ no_progress_count = 0
    /\ pc = "A"
    /\ to_process = {}
    /\ batch = {}
    /\ cluster_reps = "none"
    /\ item_assignments = NoAssignments
    /\ result = NoResult
    /\ rounds = 0
    /\ accepted = 0
    /\ validate_prompt = "unbound"
    /\ probe = "answers"
    /\ oracle = Silent
    /\ calls = NoCalls
    /\ behaved = TRUE

NextBatches ==
    PhaseA \/ BeginBatch \/ EvalItem \/ ApplyBatch \/ Return \/ ClusterEdges \/ Relabel

SpecBatches == InitBatches /\ [][NextBatches]_vars

\* cluster_items and cluster_graph are not in use
ClusterIdle ==
    /\ graph = NoGraph
    /\ item_type = "entities"
    /\ entity_result = NoResult
    /\ out_graph = NoOutGraph
    /\ items = {}
    /\ remaining_items = {}
    /\ clusters = <<>>
    /\ no_progress_count = 0
    /\ to_process = {}
    /\ batch = {}
    /\ cluster_reps = "none"
    /\ item_assignments = NoAssignments
    /\ result = NoResult
    /\ rounds = 0
    /\ accepted = 0
    /\ validate_prompt = "unbound"
    /\ oracle_labels = {}
    /\ probe = "off"
    /\ oracle = Silent
    /\ calls = NoCalls
    /\ behaved = TRUE

\* the lists of at most n labels of Pool
Lists(n) == UNION {[1..k -> Pool] : k \in 0..n}

\* a call EntityDeduplicator(DETERMINISTIC, normalize_case,
\* normalize_whitespace).deduplicate(items)
InitDedup ==
    /\ call = "deduplicate"
    /\ pc = "called"
    /\ ClusterIdle
    /\ d_items \in Lists(MaxItems)
    /\ normalize_case \in BOOLEAN
    /\ normalize_whitespace \in BOOLEAN
    /\ d_result = NoDedupResult
    /\ d_graph = NoGraph
    /\ d_out = NoGraph
    /\ method = "deterministic"
    /\ dedup_strategy = "semantic_hash"
    /\ stages = <<>>
    /\ a_graphs = <<>>
    /\ a_out = NoGraph

NextDedup == Deduplicate \/ DeduplicateOutput

SpecDedup == InitDedup /\ [][NextDedup]_vars

\* the graphs handed to the deterministic pass: any entities, edges and
\* relations, whether or not the relations use only listed labels
DedupGraphs ==
    {[entities |-> e, edges |-> p, relations |-> r,
      entity_clusters |-> c[1], edge_clusters |-> c[2]] :
        e \in SUBSET DedupEntityLabels, p \in SUBSET DedupEdgeLabels,
        r \in {x \in SUBSET (DedupEntityLabels \X DedupEdgeLabels \X DedupEntityLabels) :
                  Cardinality(x) <= MaxDedupRelations},
        c \in DedupClusterMaps}

\* a call _apply_deterministic_deduplication_to_graph(graph)
InitDedupGraph ==
    /\ call = "dedup_graph"
    /\ pc = "called"
    /\ ClusterIdle
    /\ d_items = <<>>
    /\ normalize_case = TRUE
    /\ normalize_whitespace = TRUE
    /\ d_result = NoDedupResult
    /\ d_graph \in DedupGraphs
    /\ d_out = NoGraph
    /\ method = "deterministic"
    /\ dedup_strategy = "deterministic"
    /\ stages = <<>>
    /\ a_graphs = <<>>
    /\ a_out = NoGraph

NextDedupGraph == ApplyDeterministicDedup

SpecDedupGraph == InitDedupGraph /\ [][NextDedupGraph]_vars

\* a call of either stage: cluster_graph(runner, graph) or
\* _apply_deterministic_deduplication_to_graph(graph)
InitStages == InitGraph \/ InitDedupGraph

NextStages ==
    PhaseA \/ BeginBatch \/ EvalItem \/ ApplyBatch \/ Return \/ ClusterEdges
        \/ Relabel \/ ApplyDeterministicDedup

SpecStages == InitStages /\ [][NextStages]_vars

\* cap on the length of the list handed to a deduplicator whose method is
\* chosen by the caller
MaxMethodItems == 2

\* the graphs dedup_cluster_graph is called with: any entities, edges and
\* relations, whether or not the relations use only listed labels
OrchestratorGraphs ==
    {[entities |-> e, edges |-> p, relations |-> r,
      entity_clusters |-> c[1], edge_clusters |-> c[2]] :
        e \in SUBSET {<<"a">>, <<"A">>}, p \in SUBSET {<<"a", " ", "b">>},
        r \in SUBSET {<< <<"a">>, <<"a", " ", "b">>, <<"A">> >>},
        c \in DedupClusterMaps}

\* a call of EntityDeduplicator(method, ...).deduplicate(items), of
\* deduplicate_entities(items, method, ...) or of
\* dedup_cluster_graph(retrieval_model, lm, graph, dedup_strategy)
InitConfigured ==
    /\ pc = "called"
    /\ ClusterIdle
    /\ d_result = NoDedupResult
    /\ d_out = NoGraph
    /\ stages = <<>>
    /\ a_graphs = <<>>
    /\ a_out = NoGraph
    /\ \/ /\ call \in {"deduplicate", "deduplicate_entities"}
          /\ method \in Methods
          /\ d_items \in Lists(MaxMethodItems)
          /\ normalize_case \in BOOLEAN
          /\ normalize_whitespace \in BOOLEAN
          /\ dedup_strategy = "semantic_hash"
          /\ d_graph = NoGraph
       \/ /\ call = "dedup_cluster_graph"
          /\ method = "deterministic"
          /\ d_items = <<>>
          /\ normalize_case = TRUE
          /\ normalize_whitespace = TRUE
          /\ dedup_strategy \in Strategies
          /\ d_graph \in OrchestratorGraphs

NextConfigured == Deduplicate \/ DeduplicateEntities \/ InitialDedup \/ LLMCluster

SpecConfigured == InitConfigured /\ [][NextConfigured]_vars

\* a call aggregate(graphs), or generate at the merge of its chunk results
InitMerge ==
    /\ pc = "called"
    /\ ClusterIdle
    /\ d_items = <<>>
    /\ normalize_case = TRUE
    /\ normalize_whitespace = TRUE
    /\ d_result = NoDedupResult
    /\ d_graph = NoGraph
    /\ d_out = NoGraph
    /\ method = "deterministic"
    /\ dedup_strategy = "semantic_hash"
    /\ stages = <<>>
    /\ a_out = NoGraph
    /\ \/ /\ call = "aggregate"
          /\ a_graphs \in UNION {[1..k -> PartialGraphs] : k \in 0..MaxGraphs}
       \/ /\ call = "generate"
          /\ a_graphs \in UNION {[1..k -> ChunkResults] : k \in 0..MaxGraphs}

NextMerge == Aggregate \/ MergeChunks

SpecMerge == InitMerge /\ [][NextMerge]_vars

-----------------------------------------------------------------------------
(* Properties of cluster_items                                             *)

CeilDiv(n, d) == (n + d - 1) \div d

\* the clusters of a returned cluster map in which label x appears, as
\* representative or as member
ClustersOf(x, clusters_dict) ==
    {i \in 1..Len(clusters_dict) :
        \/ x = clusters_dict[i].representative
        \/ x \in clusters_dict[i].members}

\* C1: when cluster_items returns, every input label appears in exactly one
\* cluster of the returned map, as its representative or as a member.
C1_ClusterCoverage ==
    (call = "cluster_items" /\ pc = "returned") =>
        \A x \in items : Cardinality(ClustersOf(x, result.clusters)) = 1

\* C2: cluster_items terminates whatever the oracle answers.  The while loop
\* of phase A reads nothing but remaining_items and no_progress_count, and
\* the oracle is free to repeat its answers, so the loop terminates under
\* every oracle only if no iteration returns to the loop test with both
\* unchanged.
C2_Termination ==
    [][(pc = "A" /\ pc' = "A") =>
          <<remaining_items, no_progress_count>>' #
          <<remaining_items, no_progress_count>>]_vars

\* C3: phase-A iterations plus phase-B batches never exceed
\* 8 + ceil(|items| / 10).
C3_RoundBound ==
    rounds <= LOOP_N + CeilDiv(Cardinality(items), BATCH_SIZE)

\* C3 as amended: phase-A iterations plus phase-B batches never exceed
\* 8 * (clusters accepted in phase A + 1) + ceil(|items| / 10).
C3_RoundBoundAmended ==
    rounds <= LOOP_N * (accepted + 1) + CeilDiv(Cardinality(items), BATCH_SIZE)

\* a call that accepted a cluster returns having used every round the
\* amended bound allows, more than 8 + ceil(|items| / 10)
C3_Witness ==
    /\ pc = "returned"
    /\ accepted >= 1
    /\ rounds = LOOP_N * (accepted + 1) + CeilDiv(Cardinality(items), BATCH_SIZE)

\* C6: no failing oracle call makes cluster_items abort.
C6_OracleFailureNotFatal == pc # "raised"

-----------------------------------------------------------------------------
(* Properties of cluster_graph                                             *)

\* C4: every relation of the Graph returned by cluster_graph has its subject
\* and object in the returned entities and its predicate in the returned
\* edges.
C4_ReferentialIntegrity ==
    pc = "graph_returned" =>
        \A r \in out_graph.relations :
            /\ r[1] \in out_graph.entities
            /\ r[2] \in out_graph.edges
            /\ r[3] \in out_graph.entities

-----------------------------------------------------------------------------
(* Properties of the deterministic deduplicator                            *)

DedupReturned ==
    call = "deduplicate" /\ method = "deterministic" /\ pc = "returned"

DefaultOptions == normalize_case /\ normalize_whitespace

\* two characters are the same letter up to case
SameLetter(c, d) == c = d \/ {c, d} = {"a", "A"}

AllSpace(text) == \A i \in 1..Len(text) : text[i] \in {" ", "\t"}

\* x and y differ only in letter case and in whitespace runs (leading,
\* trailing, or a run where the other has a run too); gap says that a
\* whitespace run is open on both sides
RECURSIVE Differ(_, _, _)
Differ(x, y, gap) ==
    IF x # <<>> /\ x[1] \in {" ", "\t"} /\ (gap \/ AllSpace(x))
    THEN Differ(Tail(x), y, gap)
    ELSE IF y # <<>> /\ y[1] \in {" ", "\t"} /\ (gap \/ AllSpace(y))
    THEN Differ(x, Tail(y), gap)
    ELSE IF x = <<>> \/ y = <<>> THEN x = <<>> /\ y = <<>>
    ELSE IF x[1] \in {" ", "\t"} /\ y[1] \in {" ", "\t"}
    THEN Differ(Tail(x), Tail(y), TRUE)
    ELSE IF x[1] \in {" ", "\t"} \/ y[1] \in {" ", "\t"} THEN FALSE
    ELSE SameLetter(x[1], y[1]) /\ Differ(Tail(x), Tail(y), FALSE)

Variant(x, y) == Differ(x, y, TRUE)

\* normalized form under the options of the call
Norm(x) == _normalize(x, normalize_case, normalize_whitespace)

\* position i holds the first label of its group
FirstOfGroup(i) == \A j \in 1..(i-1) : Norm(d_items[j]) # Norm(d_items[i])

\* position of the first label of the group of position i
GroupFirst(i) ==
    CHOOSE j \in 1..i : Norm(d_items[j]) = Norm(d_items[i]) /\ FirstOfGroup(j)

\* the first labels of the groups, in input order and as written
GroupFirsts ==
    LET F[i \in 0..Len(d_items)] ==
          IF i = 0 THEN <<>>
          ELSE IF FirstOfGroup(i) THEN Append(F[i-1], d_items[i]) ELSE F[i-1]
    IN F[Len(d_items)]

\* C7: unique_items holds, in first-occurrence order and as written, exactly
\* the first label of each group of labels with equal normalized form, and
\* every later label of a group maps in duplicate_map to that first label.
C7_FirstOccurrenceCanonical ==
    DedupReturned =>
        /\ d_result.unique_items = GroupFirsts
        /\ \A i \in 1..Len(d_items) :
              ~FirstOfGroup(i) =>
                  /\ d_items[i] \in DOMAIN d_result.duplicate_map
                  /\ d_result.duplicate_map[d_items[i]] = d_items[GroupFirst(i)]

\* two groups, and a duplicate mapped to a canonical label that is not in
\* normalized form
C7_Witness ==
    /\ DedupReturned
    /\ Len(d_result.unique_items) >= 2
    /\ \E k \in DOMAIN d_result.duplicate_map :
          /\ d_result.duplicate_map[k] # k
          /\ Norm(d_result.duplicate_map[k]) # d_result.duplicate_map[k]

\* C8: no key of duplicate_map is an element of unique_items, and no label
\* is mapped to itself.
C8_NoCanonicalKey ==
    DedupReturned =>
        \A k \in DOMAIN d_result.duplicate_map :
            /\ k \notin Range(d_result.unique_items)
            /\ d_result.duplicate_map[k] # k

\* C9: under default options, deduplicating [L, L'] where L' differs from L
\* only in letter case and whitespace runs yields unique_items = [L] and
\* duplicate_map = {L': L}.
C9_CaseWhitespaceInvariance ==
    (/\ DedupReturned
     /\ DefaultOptions
     /\ Len(d_items) = 2
     /\ Variant(d_items[1], d_items[2])) =>
        /\ d_result.unique_items = <<d_items[1]>>
        /\ DOMAIN d_result.duplicate_map = {d_items[2]}
        /\ d_result.duplicate_map[d_items[2]] = d_items[1]

\* [" a  b ", "A b"]: leading, trailing and repeated whitespace and a
\* letter of another case
C9_Witness ==
    /\ DedupReturned
    /\ DefaultOptions
    /\ d_items = << <<" ", "a", " ", " ", "b", " ">>, <<"A", " ", "b">> >>
    /\ Variant(d_items[1], d_items[2])
    /\ d_result.unique_items = <<d_items[1]>>

PairwiseDistinct ==
    \A i, j \in 1..Len(d_items) : i # j => ~Variant(d_items[i], d_items[j])

\* C10: a label is mapped only to a canonical label that differs from it in
\* case and whitespace alone; two labels that differ by more are not merged;
\* a list of labels that pairwise differ by more comes back unchanged, with
\* an empty duplicate_map.
C10_NonMerge ==
    DedupReturned =>
        /\ \A k \in DOMAIN d_result.duplicate_map :
              /\ Norm(k) = Norm(d_result.duplicate_map[k])
              /\ Variant(k, d_result.duplicate_map[k])
        /\ \A i, j \in 1..Len(d_items) :
              ~Variant(d_items[i], d_items[j]) =>
                  GetOrSelf(d_result.duplicate_map, d_items[i]) #
                  GetOrSelf(d_result.duplicate_map, d_items[j])
        /\ PairwiseDistinct =>
              /\ d_result.unique_items = d_items
              /\ d_result.duplicate_map = EmptyDict

\* three labels that pairwise differ by more than case and whitespace
C10_Witness ==
    /\ DedupReturned
    /\ DefaultOptions
    /\ Len(d_items) = 3
    /\ PairwiseDistinct
    /\ d_result.unique_items = d_items

\* C5: every relation of the Graph returned by the deterministic pass has
\* its subject and object in the returned entities and its predicate in the
\* returned edges.
C5_DedupReferentialIntegrity ==
    (call = "dedup_graph" /\ pc = "returned") =>
        \A r \in d_out.relations :
            /\ r[1] \in d_out.entities
            /\ r[2] \in d_out.edges
            /\ r[3] \in d_out.entities

\* of two input relations one names a subject that is no entity and is
\* dropped, the other is kept under canonical labels
C5_Witness ==
    /\ call = "dedup_graph"
    /\ pc = "returned"
    /\ Cardinality(d_graph.relations) = 2
    /\ \E r \in d_graph.relations : r[1] \notin d_graph.entities
    /\ Cardinality(d_out.relations) = 1
    /\ d_out.relations \cap d_graph.relations = {}

-----------------------------------------------------------------------------
(* Further properties of the deterministic deduplicator                    *)

\* C11: the deterministic deduplicator run again, with the same options, on
\* the unique_items it returned gives the same unique_items and an empty
\* duplicate_map.
C11_Idempotence ==
    (call = "deduplicate" /\ pc = "rerun") =>
        /\ d_result.unique_items = d_items
        /\ d_result.duplicate_map = EmptyDict

\* the second run was handed two canonical labels, one of them not in
\* normalized form
C11_Witness ==
    /\ call = "deduplicate"
    /\ pc = "rerun"
    /\ Len(d_items) = 2
    /\ Norm(d_items[1]) # d_items[1]
    /\ d_result.unique_items = d_items

TextuallyDistinct ==
    \A i, j \in 1..Len(d_items) : i # j => d_items[i] # d_items[j]

\* C12: for pairwise textually distinct input labels, each is either in
\* unique_items or a key of duplicate_map and never both, every value of
\* duplicate_map is in unique_items, and the two sizes add up to the input
\* length; empty input gives ([], {}); input in which no two labels
\* normalize equal gives an empty duplicate_map.
C12_EveryLabelAccounted ==
    DedupReturned =>
        /\ TextuallyDistinct =>
              /\ \A i \in 1..Len(d_items) :
                    ~((d_items[i] \in Range(d_result.unique_items)) <=>
                      (d_items[i] \in DOMAIN d_result.duplicate_map))
              /\ \A k \in DOMAIN d_result.duplicate_map :
                    d_result.duplicate_map[k] \in Range(d_result.unique_items)
              /\ Len(d_result.unique_items) +
                 Cardinality(DOMAIN d_result.duplicate_map) = Len(d_items)
        /\ d_items = <<>> =>
              /\ d_result.unique_items = <<>>
              /\ d_result.duplicate_map = EmptyDict
        /\ (\A i, j \in 1..Len(d_items) :
               i # j => Norm(d_items[i]) # Norm(d_items[j])) =>
              d_result.duplicate_map = EmptyDict

\* three distinct labels, of which one is a duplicate of another
C12_Witness ==
    /\ DedupReturned
    /\ TextuallyDistinct
    /\ Len(d_items) = 3
    /\ Len(d_result.unique_items) = 2
    /\ Cardinality(DOMAIN d_result.duplicate_map) = 1

\* x and y differ only in whitespace runs (leading, trailing, or a run where
\* the other has a run too); their letters are the same, case included
RECURSIVE DifferInSpace(_, _, _)
DifferInSpace(x, y, gap) ==
    IF x # <<>> /\ x[1] \in {" ", "\t"} /\ (gap \/ AllSpace(x))
    THEN DifferInSpace(Tail(x), y, gap)
    ELSE IF y # <<>> /\ y[1] \in {" ", "\t"} /\ (gap \/ AllSpace(y))
    THEN DifferInSpace(x, Tail(y), gap)
    ELSE IF x = <<>> \/ y = <<>> THEN x = <<>> /\ y = <<>>
    ELSE IF x[1] \in {" ", "\t"} /\ y[1] \in {" ", "\t"}
    THEN DifferInSpace(Tail(x), Tail(y), TRUE)
    ELSE IF x[1] \in {" ", "\t"} \/ y[1] \in {" ", "\t"} THEN FALSE
    ELSE x[1] = y[1] /\ DifferInSpace(Tail(x), Tail(y), FALSE)

SpaceVariant(x, y) == DifferInSpace(x, y, TRUE)

\* x and y are the same up to case and whitespace, and some letter differs
\* in case
CaseVariant(x, y) == Variant(x, y) /\ ~SpaceVariant(x, y)

\* C13: with normalize_case = False, labels that differ in letter case are
\* never merged (a list of two such labels comes back unchanged with an empty
\* duplicate_map), while labels that differ only in whitespace are merged
\* when normalize_whitespace is true.
C13_CaseSensitiveMode ==
    (DedupReturned /\ ~normalize_case) =>
        /\ \A i, j \in 1..Len(d_items) :
              CaseVariant(d_items[i], d_items[j]) =>
                  GetOrSelf(d_result.duplicate_map, d_items[i]) #
                  GetOrSelf(d_result.duplicate_map, d_items[j])
        /\ (Len(d_items) = 2 /\ CaseVariant(d_items[1], d_items[2])) =>
              /\ d_result.unique_items = d_items
              /\ d_result.duplicate_map = EmptyDict
        /\ normalize_whitespace =>
              \A i, j \in 1..Len(d_items) :
                  (i < j /\ SpaceVariant(d_items[i], d_items[j])) =>
                      /\ d_items[j] \in DOMAIN d_result.duplicate_map
                      /\ GetOrSelf(d_result.duplicate_map, d_items[i]) =
                         d_result.duplicate_map[d_items[j]]

\* case-sensitive, whitespace-normalizing: two labels that differ in case
\* are both kept and a third, a whitespace variant, is merged
C13_Witness ==
    /\ DedupReturned
    /\ ~normalize_case
    /\ normalize_whitespace
    /\ Len(d_result.unique_items) = 2
    /\ CaseVariant(d_result.unique_items[1], d_result.unique_items[2])
    /\ \E k \in DOMAIN d_result.duplicate_map : d_result.duplicate_map[k] # k

-----------------------------------------------------------------------------
(* Further properties of _apply_deterministic_deduplication_to_graph       *)

DedupGraphReturned == call = "dedup_graph" /\ pc = "returned"

\* relation r of the input graph references only listed labels
Listed(r) ==
    /\ r[1] \in d_graph.entities
    /\ r[2] \in d_graph.edges
    /\ r[3] \in d_graph.entities

\* triples t and r are equal after normalization, component by component
SameTriple(t, r) == \A k \in 1..3 : Variant(t[k], r[k])

\* C14 as amended: two input relations over listed labels whose subjects,
\* predicates and objects are pairwise equal after normalization are rewritten to one and the same
\* output relation, which references only canonical labels, whatever the
\* iteration order of the entity and edge sets.
C14_RelationsCollapse ==
    DedupGraphReturned =>
        \A r1, r2 \in d_graph.relations :
            (Listed(r1) /\ Listed(r2) /\ SameTriple(r1, r2)) =>
                \E t \in d_out.relations :
                    /\ SameTriple(t, r1)
                    /\ t[1] \in d_out.entities
                    /\ t[2] \in d_out.edges
                    /\ t[3] \in d_out.entities
                    /\ \A u \in d_out.relations : SameTriple(u, r2) => u = t

\* C14 as stated, for every two input relations, listed or not: they are
\* rewritten to one and the same output relation over canonical labels.
C14_RelationsCollapseAnyInput ==
    DedupGraphReturned =>
        \A r1, r2 \in d_graph.relations :
            SameTriple(r1, r2) =>
                \E t \in d_out.relations :
                    /\ SameTriple(t, r1)
                    /\ t[1] \in d_out.entities
                    /\ t[2] \in d_out.edges
                    /\ t[3] \in d_out.entities
                    /\ \A u \in d_out.relations : SameTriple(u, r2) => u = t

\* two different relations over listed labels collapse into one
C14_Witness ==
    /\ DedupGraphReturned
    /\ \E r1, r2 \in d_graph.relations :
          r1 # r2 /\ Listed(r1) /\ Listed(r2) /\ SameTriple(r1, r2)
    /\ Cardinality(d_graph.relations) = 2
    /\ Cardinality(d_out.relations) = 1

\* no two labels of S are equal after normalization
NoDuplicates(S) == \A x, y \in S : x # y => ~Variant(x, y)

DuplicateFree ==
    /\ NoDuplicates(d_graph.entities)
    /\ NoDuplicates(d_graph.edges)
    /\ \A r \in d_graph.relations : Listed(r)

\* C15: a graph in which no two entities and no two edges have equal
\* normalized forms and every relation references only listed labels comes
\* back with the same entities, edges and relations.
C15_NoDuplicatesUnchanged ==
    (DedupGraphReturned /\ DuplicateFree) =>
        /\ d_out.entities = d_graph.entities
        /\ d_out.edges = d_graph.edges
        /\ d_out.relations = d_graph.relations

\* a duplicate-free graph with two entities, an edge and two relations
C15_Witness ==
    /\ DedupGraphReturned
    /\ DuplicateFree
    /\ Cardinality(d_graph.entities) = 2
    /\ d_graph.edges # {}
    /\ Cardinality(d_graph.relations) = 2
    /\ d_out.relations = d_graph.relations

-----------------------------------------------------------------------------
(* Properties of dedup_cluster_graph and of the configuration              *)

\* C16: for a graph with zero entities and zero edges dedup_cluster_graph
\* returns entities, edges, relations and both cluster maps empty, whatever
\* the strategy, and runs no dedup step and no LLM step.
C16_EmptyGraphShortCircuit ==
    (call = "dedup_cluster_graph" /\ pc # "called" /\
     d_graph.entities = {} /\ d_graph.edges = {}) =>
        /\ pc = "returned"
        /\ d_out = EmptyGraph
        /\ stages = <<>>

\* a graph without entities and edges that still carries a relation and
\* cluster maps has been answered with the empty graph
C16_Witness ==
    /\ call = "dedup_cluster_graph"
    /\ pc = "returned"
    /\ dedup_strategy = "deterministic"
    /\ d_graph.entities = {}
    /\ d_graph.edges = {}
    /\ d_graph.relations # {}
    /\ d_graph.entity_clusters # EmptyClusters
    /\ d_out = EmptyGraph

\* C17: an unknown method or strategy ends in a configuration error raised
\* before any processing, never in a normal result, whatever the input.
C17_UnknownConfigFailsFast ==
    /\ (call \in {"deduplicate", "deduplicate_entities"} /\
        method = "unknown" /\ pc # "called") =>
           pc = "raised" /\ d_result = NoDedupResult
    /\ (call = "dedup_cluster_graph" /\
        dedup_strategy = "unknown" /\ pc # "called") =>
           pc = "raised" /\ stages = <<>>

-----------------------------------------------------------------------------
(* Properties of the stages over a whole graph                             *)

\* relation r of the graph passed to cluster_graph names a label that is
\* absent from the graph's entities or edges
Unresolvable(r) ==
    \/ r[1] \notin graph.entities
    \/ r[2] \notin graph.edges
    \/ r[3] \notin graph.entities

\* C18: an input relation that references a subject, object or predicate
\* absent from the graph's entities/edges is not in the graph cluster_graph
\* returns, and cluster_graph does not raise because of it.
C18_UnresolvableDropped ==
    (call = "cluster_graph" /\ pc = "graph_returned") =>
        \A r \in graph.relations : Unresolvable(r) => r \notin out_graph.relations

\* C19: no step of cluster_graph or of
\* _apply_deterministic_deduplication_to_graph changes the graph it was
\* passed: its entities, edges, relations and cluster maps stay what they
\* were at the call.
C19_InputGraphNotMutated ==
    [][graph' = graph /\ d_graph' = d_graph]_vars

\* cluster_graph has returned a graph whose entities and relations differ
\* from those of the graph it was passed
C19_Witness ==
    /\ call = "cluster_graph"
    /\ pc = "graph_returned"
    /\ graph.relations # {}
    /\ out_graph.entities # graph.entities
    /\ out_graph.relations # graph.relations

-----------------------------------------------------------------------------
(* Properties of the merge of partial graphs                               *)

MergeReturned == call \in {"aggregate", "generate"} /\ pc = "returned"

\* the lists that hold the elements of a_graphs in another order
Reorderings ==
    {[i \in 1..Len(a_graphs) |-> a_graphs[f[i]]] :
        f \in Permutations(1..Len(a_graphs))}

\* what the call returns for list l
Merged(l) == IF call = "aggregate" THEN aggregate(l) ELSE merge_chunks(l)

\* C20: the entities and relations of the merged graph are the set unions of
\* the inputs' (and so are the edges for aggregate; generate takes the
\* predicates of the merged relations); the result is the same for every
\* order of the inputs, and merging an input with itself gives that input's
\* sets.
C20_MergeIsUnion ==
    MergeReturned =>
        /\ a_out.entities =
              UNION {a_graphs[i].entities : i \in 1..Len(a_graphs)}
        /\ a_out.relations =
              UNION {a_graphs[i].relations : i \in 1..Len(a_graphs)}
        /\ a_out.edges =
              IF call = "aggregate"
              THEN UNION {a_graphs[i].edges : i \in 1..Len(a_graphs)}
              ELSE {r[2] : r \in a_out.relations}
        /\ \A l \in Reorderings : Merged(l) = a_out
        /\ (Len(a_graphs) >= 1 /\
            \A i \in 1..Len(a_graphs) : a_graphs[i] = a_graphs[1]) =>
              /\ a_out.entities = a_graphs[1].entities
              /\ a_out.relations = a_graphs[1].relations
              /\ call = "aggregate" => a_out.edges = a_graphs[1].edges

\* two graphs, neither holding all entities of the other, were aggregated
C20_Witness ==
    /\ call = "aggregate"
    /\ pc = "returned"
    /\ Len(a_graphs) = 2
    /\ a_out.entities # a_graphs[1].entities
    /\ a_out.entities # a_graphs[2].entities
    /\ a_out.relations # {}
    /\ a_out.edges # {}

-----------------------------------------------------------------------------
(* Phase A of cluster_items *)

\* positions of phase B and after it
AfterPhaseA == {"for", "eval", "returned"}

\* C21: no_progress_count never exceeds LOOP_N; phase B is entered only with
\* remaining_items empty or no_progress_count at LOOP_N; an iteration of
\* phase A that does not raise sets no_progress_count to 0 when it appends
\* a cluster and adds 1 to it when it does not, and it leaves phase A
\* exactly when no_progress_count has reached LOOP_N or remaining_items
\* has become empty.
C21_PhaseAExitRule ==
    /\ [](no_progress_count <= LOOP_N)
    /\ [](pc \in AfterPhaseA =>
             remaining_items = {} \/ no_progress_count = LOOP_N)
    /\ [][pc = "A" /\ pc' # "raised" =>
            /\ clusters' # clusters => no_progress_count' = 0
            /\ clusters' = clusters => no_progress_count' = no_progress_count + 1
            /\ pc' # "A" <=>
                  (no_progress_count' = LOOP_N \/ remaining_items' = {})]_vars

\* phase A accepted a cluster, then stalled LOOP_N times and left the loop
\* with items remaining
C21_Witness ==
    /\ pc = "for"
    /\ batch = {}
    /\ clusters # <<>>
    /\ no_progress_count = LOOP_N
    /\ remaining_items # {}

\* a step of cluster_items has been taken from position p with the answers
\* of the LLM recorded
StepFrom(p) == probe = "answers" /\ oracle.before.pc = p

\* C22: an iteration of phase A whose validate answer has more than one
\* element, and which does not raise, appends exactly one cluster, whose
\* members are the validate answer and whose representative is the
\* choose_representative answer; it removes from remaining_items the
\* validated members and nothing else, and leaves no_progress_count at 0.
C22_AcceptanceStep ==
    (/\ StepFrom("A")
     /\ pc # "raised"
     /\ Cardinality(OrEmpty(oracle.validated)) > 1) =>
        /\ clusters = Append(oracle.before.clusters,
                             Cluster(oracle.representative.value,
                                     OrEmpty(oracle.validated)))
        /\ remaining_items =
              oracle.before.remaining_items \ OrEmpty(oracle.validated)
        /\ no_progress_count = 0

\* an iteration has accepted a cluster that holds a label from outside the
\* items and has left an item remaining
C22_Witness ==
    /\ StepFrom("A")
    /\ oracle.asked = <<"cluster", "validated_items", "representative">>
    /\ pc = "A"
    /\ Len(clusters) = 1
    /\ clusters[1].members = {"a", "c"}
    /\ items = {"c", "d"}
    /\ remaining_items = {"d"}
    /\ no_progress_count = 0

-----------------------------------------------------------------------------
(* Phase B of cluster_items *)

\* the item a step of the per-item loop has just evaluated, with the LLM
\* calls recorded
Evaluated ==
    /\ probe = "answers"
    /\ pc = "eval"
    /\ oracle.item # None

\* a batch has just ended after the evaluation of its items
BatchEnded == StepFrom("eval") /\ pc = "for"

\* cluster_map[rep]
ClusterOf(rep) == clusters[ClusterIndex(clusters, rep)]

\* the item was neither representative nor member of the cluster it has
\* just been assigned to
MergedInto(item) ==
    /\ item_assignments[item] # None
    /\ item # ClusterOf(item_assignments[item]).representative
    /\ item \notin ClusterOf(item_assignments[item]).members

\* target_cluster.members | {item}
PotentialNewMembers(item, rep) == ClusterOf(rep).members \cup {item}

\* C23: an item that was neither representative nor member of a cluster is
\* assigned to it only if batch_assign named the cluster's representative
\* for the item, a validate_cluster call was answered, the item is in the
\* answer and the answer has as many elements as members | {item}; an
\* answer that is a strict superset of members | {item} leaves the item
\* unassigned; and the batch adds to a cluster's members only items
\* assigned to its representative.
C23_MergeRequiresValidation ==
    /\ Evaluated =>
            LET item == oracle.item
                validated_items == OrEmpty(oracle.validated)
            IN /\ MergedInto(item) =>
                    /\ oracle.rep = item_assignments[item]
                    /\ oracle.asked = <<"validated_items">>
                    /\ oracle.validated.tag # "raise"
                    /\ item \in validated_items
                    /\ Cardinality(validated_items) =
                          Cardinality(PotentialNewMembers(item, oracle.rep))
               /\ (/\ oracle.asked = <<"validated_items">>
                   /\ PotentialNewMembers(item, oracle.rep) \subseteq validated_items
                   /\ PotentialNewMembers(item, oracle.rep) # validated_items)
                    => item_assignments[item] = None
    /\ BatchEnded =>
            \A i \in 1..Len(oracle.before.clusters) :
                \A x \in clusters[i].members \ oracle.before.clusters[i].members :
                    item_assignments[x] = clusters[i].representative

\* item c has been merged into the cluster {a, b} on a validate answer of
\* {a, b, c}
C23_Witness ==
    /\ Evaluated
    /\ oracle.item = "c"
    /\ MergedInto("c")
    /\ ClusterOf(oracle.rep).members = {"a", "b"}
    /\ OrEmpty(oracle.validated) = {"a", "b", "c"}

\* C24: whenever an item is merged into a cluster, the validate_cluster
\* answer held the item and every member the cluster had.
C24_MergeKeptEveryMember ==
    (Evaluated /\ MergedInto(oracle.item)) =>
        PotentialNewMembers(oracle.item, oracle.rep)
            \subseteq OrEmpty(oracle.validated)

Appended ==
    {clusters[i] : i \in (Len(oracle.before.clusters) + 1)..Len(clusters)}

\* the end of a batch, for the items it leaves unassigned: an item that is
\* no representative gets one new cluster, of itself alone; an item that is
\* a representative gets none and is added to no cluster
UnassignedBecomeSingletons ==
    \A item \in batch :
        item_assignments[item] = None =>
            IF item \in ClusterKeys(oracle.before.clusters)
            THEN /\ \A c \in Appended : c.representative # item
                 /\ \A i \in 1..Len(oracle.before.clusters) :
                       item \in clusters[i].members
                           <=> item \in oracle.before.clusters[i].members
            ELSE /\ Cluster(item, {item}) \in Appended
                 /\ Cardinality({i \in 1..Len(clusters) :
                                    clusters[i].representative = item}) = 1

\* C26: an item evaluated without a candidate representative, with a
\* candidate that is no representative of a current cluster, past the end
\* of the batch_assign answer, or with a rejected merge is left
\* unassigned; and every unassigned item of a batch ends the batch as a new
\* cluster of itself alone, unless it already is the representative of a
\* cluster, in which case no cluster is made for it and none receives it.
C26_UnassignedBecomeSingletons ==
    /\ Evaluated =>
            LET item == oracle.item IN
            (\/ oracle.rep = None
             \/ oracle.rep \notin ClusterKeys(clusters)
             \/ cluster_reps = "ended"
             \/ /\ oracle.asked = <<"validated_items">>
                /\ ~MergeValidated(item, OrEmpty(oracle.validated),
                                   PotentialNewMembers(item, oracle.rep)))
                => item_assignments[item] = None
    /\ BatchEnded => UnassignedBecomeSingletons

\* the batch {c, d} has ended with both items unassigned: c, the
\* representative of the cluster {a, b}, got no cluster and d got its own
C26_Witness ==
    /\ BatchEnded
    /\ batch = {"c", "d"}
    /\ item_assignments["c"] = None
    /\ item_assignments["d"] = None
    /\ clusters = <<Cluster("c", {"a", "b"}), Cluster("d", {"d"})>>

\* C27: a batch that starts with no cluster makes each of its items a
\* cluster of itself alone and calls no LLM; batch_assign is never passed
\* an empty list of clusters.
C27_NoClustersNoCall ==
    /\ (/\ StepFrom("for")
        /\ oracle.before.to_process # {}
        /\ oracle.before.clusters = <<>>) =>
            /\ pc = "for"
            /\ oracle.asked = <<>>
            /\ Len(clusters) = Cardinality(batch)
            /\ \A item \in batch :
                  \E i \in 1..Len(clusters) : clusters[i] = Cluster(item, {item})
    /\ oracle.asked = <<"cluster_reps_that_items_belong_to">> =>
            oracle.existing # <<>>
    /\ clusters = <<>> => calls["cluster_reps_that_items_belong_to"] = 0

\* phase A has found no cluster and the batch {c, d} has been turned into
\* two clusters without a call
C27_Witness ==
    /\ StepFrom("for")
    /\ oracle.before.clusters = <<>>
    /\ oracle.asked = <<>>
    /\ no_progress_count = LOOP_N
    /\ batch = {"c", "d"}
    /\ to_process = {}
    /\ Len(clusters) = 2

\* C28: a validate_cluster call of phase B that raises leaves its item
\* unassigned and does not end cluster_items: no evaluation of an item
\* raises, the evaluation goes on with the same batch, the batch ends with
\* every unassigned item a cluster of itself alone unless it already is a
\* representative, and what is left to process is left for the next batch.
C28_ValidationFailureRecovered ==
    /\ (/\ Evaluated
        /\ oracle.asked = <<"validated_items">>
        /\ oracle.validated.tag = "raise")
            => item_assignments[oracle.item] = None
    /\ pc = "raised" => oracle.item = None
    /\ StepFrom("eval") =>
            /\ pc \in {"eval", "for"}
            /\ pc = "eval" => /\ batch = oracle.before.batch
                              /\ to_process = oracle.before.to_process
            /\ pc = "for" => /\ UnassignedBecomeSingletons
                             /\ to_process =
                                   oracle.before.to_process \ oracle.before.batch

\* the validate_cluster call for c has raised in a batch that has further
\* items to evaluate and is followed by another batch
C28_Witness ==
    /\ Evaluated
    /\ oracle.item = "c"
    /\ oracle.asked = <<"validated_items">>
    /\ oracle.validated.tag = "raise"
    /\ batch \ DOMAIN item_assignments # {}
    /\ to_process \ batch # {}

\* C29: within a call of cluster_items a cluster, once in the list, stays
\* in it at its place with its representative and at least its members;
\* and every batch_assign call is passed the whole list as it then is, so
\* with every cluster earlier batches have made or extended.
C29_EarlierClustersVisible ==
    /\ (probe = "answers" /\ oracle.before.pc \in {"A", "for", "eval"}) =>
            \A i \in 1..Len(oracle.before.clusters) :
                /\ i <= Len(clusters)
                /\ clusters[i].representative =
                      oracle.before.clusters[i].representative
                /\ oracle.before.clusters[i].members \subseteq clusters[i].members
    /\ oracle.asked = <<"cluster_reps_that_items_belong_to">> =>
            oracle.existing = clusters

\* the first batch made c a cluster of itself alone, and the second batch,
\* of d alone, has added d to it
C29_Witness ==
    /\ BatchEnded
    /\ Len(clusters) = BATCH_SIZE
    /\ batch = {"d"}
    /\ item_assignments["d"] = "c"
    /\ \E i \in 1..Len(clusters) :
          /\ oracle.before.clusters[i] = Cluster("c", {"c"})
          /\ clusters[i] = Cluster("c", {"c", "d"})

-----------------------------------------------------------------------------
(* cluster_items with an LLM that has only empty answers *)

\* the entity call of a run in which the LLM mentions no label, with its
\* calls counted
Quiet ==
    /\ probe = "calls"
    /\ oracle_labels = {}
    /\ item_type = "entities"

\* the returned map has every input item as a cluster of itself alone, and
\* nothing else
AllSingletons ==
    /\ result.new_items = items
    /\ Len(result.clusters) = Cardinality(items)
    /\ \A x \in items :
          \E i \in 1..Len(result.clusters) : result.clusters[i] = Cluster(x, {x})

-----------------------------------------------------------------------------
(* Order of the steps of dedup_cluster_graph                               *)

\* the names of the steps run so far, in order
StepNames == [i \in 1..Len(stages) |-> stages[i].step]

\* the dedup steps the strategy selects
SelectedSteps ==
    CASE dedup_strategy = "deterministic" -> <<"deterministic">>
      [] dedup_strategy = "semantic_hash" -> <<"semantic_hash">>
      [] dedup_strategy = "both"          -> <<"deterministic", "semantic_hash">>
      [] OTHER                            -> <<>>

\* C31: for a non-empty graph dedup_cluster_graph runs the steps of the
\* selected strategy, on the input graph, before the clustering step; the
\* clustering step runs once, last, on the graph the dedup steps returned,
\* and its result is what is returned; under BOTH the deterministic pass
\* runs first, the semantic-hash collaborator runs once on what it
\* returned, and no deterministic pass follows.
C31_PipelineOrdering ==
    (call = "dedup_cluster_graph" /\ ~IsEmptyGraph(d_graph)) =>
        /\ StepNames \in {<<>>, SelectedSteps, Append(SelectedSteps, "llm")}
        /\ pc = "deduplicated" => StepNames = SelectedSteps
        /\ pc = "returned" => StepNames = Append(SelectedSteps, "llm")
        /\ stages # <<>> =>
              /\ stages[1].given = d_graph
              /\ stages[Len(stages)].returned = d_out
        /\ \A i \in 2..Len(stages) : stages[i].given = stages[i-1].returned

\* under BOTH the three steps have run on a graph that the deterministic
\* pass changed, and the semantic-hash collaborator changed its output again
C31_Witness ==
    /\ call = "dedup_cluster_graph"
    /\ dedup_strategy = "both"
    /\ pc = "returned"
    /\ StepNames = <<"deterministic", "semantic_hash", "llm">>
    /\ stages[1].returned # d_graph
    /\ stages[2].returned # stages[1].returned
    /\ stages[3].returned = d_out

-----------------------------------------------------------------------------
(* Substitution of representatives in cluster_graph                        *)

\* y may stand for component x of a relation: x itself when x is a final
\* representative, else the representative of a cluster that holds x when
\* there is one
Substitutes(x, y, new_items, clusters_dict) ==
    LET owners == {i \in 1..Len(clusters_dict) : x \in clusters_dict[i].members} IN
    IF x \in new_items THEN y = x
    ELSE IF owners # {} THEN \E i \in owners : y = clusters_dict[i].representative
    ELSE TRUE

\* t may stand for relation r in the graph returned
RelationSubstitutes(r, t) ==
    /\ Substitutes(r[1], t[1], out_graph.entities, out_graph.entity_clusters)
    /\ Substitutes(r[2], t[2], out_graph.edges, out_graph.edge_clusters)
    /\ Substitutes(r[3], t[3], out_graph.entities, out_graph.entity_clusters)

\* C32: the relations cluster_graph returns are the input relations with,
\* in each, a component that is a final representative left as it is and a
\* component that is no representative but a member of some returned
\* cluster replaced by the representative of a cluster that holds it:
\* subject and object against the entity clusters, predicate against the
\* edge clusters.
C32_RelabelSubstitution ==
    (call = "cluster_graph" /\ pc = "graph_returned") =>
        /\ \A r \in graph.relations :
              \E t \in out_graph.relations : RelationSubstitutes(r, t)
        /\ \A t \in out_graph.relations :
              \E r \in graph.relations : RelationSubstitutes(r, t)

\* the subject a of a relation, a member of the cluster of c, has been
\* replaced by c, while the representatives p and c stay as written
C32_Witness ==
    /\ call = "cluster_graph"
    /\ pc = "graph_returned"
    /\ graph.relations = {<<"a", "p", "c">>}
    /\ out_graph.relations = {<<"c", "p", "c">>}
    /\ "a" \notin out_graph.entities
    /\ "c" \in out_graph.entities
    /\ "p" \in out_graph.edges
    /\ \E i \in 1..Len(out_graph.entity_clusters) :
          /\ out_graph.entity_clusters[i].representative = "c"
          /\ "a" \in out_graph.entity_clusters[i].members

-----------------------------------------------------------------------------
(* The cluster list of cluster_items                                       *)

\* a step inside one call of cluster_items has been taken with the state
\* before it recorded
StepInside == probe = "answers" /\ oracle.before.pc \in {"A", "for", "eval"}

\* C33: no step of cluster_items removes or moves a cluster of the list or
\* changes its representative, and a step leaves in its member set every
\* member it had; every cluster of the list has a non-empty member set.
C33_ClusterListAppendOnly ==
    /\ StepInside =>
            /\ Len(oracle.before.clusters) <= Len(clusters)
            /\ \A i \in 1..Len(oracle.before.clusters) :
                  /\ clusters[i].representative =
                        oracle.before.clusters[i].representative
                  /\ oracle.before.clusters[i].members \subseteq clusters[i].members
    /\ \A i \in 1..Len(clusters) : clusters[i].members # {}

\* a batch has ended that added c to the first cluster and appended a
\* cluster for d behind it
C33_Witness ==
    /\ BatchEnded
    /\ Len(oracle.before.clusters) = 1
    /\ Len(clusters) = 2
    /\ clusters[1].members = oracle.before.clusters[1].members \cup {"c"}
    /\ "c" \notin oracle.before.clusters[1].members
    /\ clusters[2] = Cluster("d", {"d"})

\* C34: no two clusters of the list have the same representative, so the
\* returned map has one entry for each cluster of the list and as many
\* representatives are returned as clusters were formed.
C34_RepresentativesUnique ==
    /\ \A i, j \in 1..Len(clusters) :
          i # j => clusters[i].representative # clusters[j].representative
    /\ (call = "cluster_items" /\ pc = "returned") =>
          /\ Len(result.clusters) = Len(clusters)
          /\ Cardinality(result.new_items) = Len(clusters)

-----------------------------------------------------------------------------
(* cluster_items and cluster_graph with a well-behaved LLM                 *)

\* the clusters of a returned map are a partition of `its` in which every
\* representative is a member of its own cluster
IsPartition(clusters_dict, its) ==
    /\ \A i, j \in 1..Len(clusters_dict) :
          i # j => clusters_dict[i].members \cap clusters_dict[j].members = {}
    /\ UNION {clusters_dict[i].members : i \in 1..Len(clusters_dict)} = its
    /\ \A i \in 1..Len(clusters_dict) :
          clusters_dict[i].representative \in clusters_dict[i].members

\* the representatives of the clusters of a returned map that hold x
RepresentativesOf(x, clusters_dict) ==
    {clusters_dict[i].representative :
        i \in {k \in 1..Len(clusters_dict) : x \in clusters_dict[k].members}}

\* the images of relation r under the returned cluster maps
Images(r) ==
    RepresentativesOf(r[1], out_graph.entity_clusters)
        \X RepresentativesOf(r[2], out_graph.edge_clusters)
        \X RepresentativesOf(r[3], out_graph.entity_clusters)

\* C35: when no call has raised, every answer was a subset of the set the
\* call was given and every chosen representative was a member of its
\* cluster, cluster_items does not raise and returns member sets that are
\* pairwise disjoint and whose union is the input items, each
\* representative a member of its own cluster; and for a graph whose
\* relations use only its entities and edges cluster_graph returns the
\* image of every input relation and only relations whose components are
\* in the returned entities and edges.
C35_WellBehavedPartition ==
    (probe = "conduct" /\ behaved) =>
        /\ pc # "raised"
        /\ pc = "returned" =>
              /\ IsPartition(result.clusters, items)
              /\ result.new_items = ClusterKeys(result.clusters)
        /\ pc = "graph_returned" =>
              /\ IsPartition(out_graph.entity_clusters, graph.entities)
              /\ IsPartition(out_graph.edge_clusters, graph.edges)
              /\ graph \in ConsistentGraphs =>
                    /\ \A r \in graph.relations :
                          /\ Images(r) # {}
                          /\ Images(r) \subseteq out_graph.relations
                    /\ \A t \in out_graph.relations :
                          /\ t[1] \in out_graph.entities
                          /\ t[2] \in out_graph.edges
                          /\ t[3] \in out_graph.entities

\* a well-behaved LLM has put a and b into one entity cluster and p and q
\* into one edge cluster, and the two relations of the graph have become
\* one
C35_Witness ==
    /\ probe = "conduct"
    /\ behaved
    /\ call = "cluster_graph"
    /\ pc = "graph_returned"
    /\ graph.entities = {"a", "b", "c"}
    /\ graph.relations = RelationPool
    /\ Len(out_graph.entity_clusters) = 2
    /\ Len(out_graph.edge_clusters) = 1
    /\ Cardinality(out_graph.relations) = 1

\* C36: every member of every cluster cluster_items returns is an element
\* of the item set the call was passed.
C36_MembersAreInputLabels ==
    pc = "returned" =>
        \A i \in 1..Len(result.clusters) : result.clusters[i].members \subseteq items

-----------------------------------------------------------------------------
(* Relations kept by the deterministic pass over a graph                   *)

\* every relation of the graph passed uses only its entities and edges
ConsistentInput ==
    \A r \in d_graph.relations :
        /\ r[1] \in d_graph.entities
        /\ r[2] \in d_graph.edges
        /\ r[3] \in d_graph.entities

\* the returned labels of the normalization group of x
Canonicals(x, unique) ==
    {c \in unique : _normalize(c, TRUE, TRUE) = _normalize(x, TRUE, TRUE)}

\* C37: for a graph whose relations use only its entities and edges the
\* deterministic pass returns, for every input relation (s, p, o), the
\* relation of the canonical labels of the groups of s, p and o, each group
\* having one canonical label; and it never returns more relations than it
\* was passed.
C37_NoRelationLost ==
    (call = "dedup_graph" /\ pc = "returned") =>
        /\ ConsistentInput =>
              \A r \in d_graph.relations :
                  /\ Cardinality(Canonicals(r[1], d_out.entities)) = 1
                  /\ Cardinality(Canonicals(r[2], d_out.edges)) = 1
                  /\ Cardinality(Canonicals(r[3], d_out.entities)) = 1
                  /\ Canonicals(r[1], d_out.entities)
                        \X Canonicals(r[2], d_out.edges)
                        \X Canonicals(r[3], d_out.entities)
                            \subseteq d_out.relations
        /\ Cardinality(d_out.relations) <= Cardinality(d_graph.relations)

\* two relations over listed labels have become one relation that is
\* neither of them
C37_Witness ==
    /\ call = "dedup_graph"
    /\ pc = "returned"
    /\ ConsistentInput
    /\ Cardinality(d_graph.relations) = 2
    /\ Cardinality(d_out.relations) = 1
    /\ d_out.relations \cap d_graph.relations = {}

-----------------------------------------------------------------------------
(* The deterministic deduplicator and the order of its input               *)

\* the lists that hold the labels of d_items in another order
ItemReorderings ==
    {[i \in 1..Len(d_items) |-> d_items[p[i]]] :
        p \in Permutations(1..Len(d_items))}

\* x and y are in one group of a result: one is canonical and the other
\* mapped to it, or both are mapped to the same canonical label
SameGroup(res, x, y) ==
    GetOrSelf(res.duplicate_map, x) = GetOrSelf(res.duplicate_map, y)

\* C38: the deterministic deduplicator run on the same labels in any other
\* order returns as many unique_items, and puts two labels in one group
\* exactly when the run at hand does.
C38_GroupingOrderIndependent ==
    DedupReturned =>
        \A other_items \in ItemReorderings :
            LET other == _deduplicate_deterministic(other_items,
                             normalize_case, normalize_whitespace)
            IN /\ Len(other.unique_items) = Len(d_result.unique_items)
               /\ \A x, y \in Range(d_items) :
                     SameGroup(other, x, y) <=> SameGroup(d_result, x, y)

\* ["a", "A", "a b"]: two groups, and the other orders of the list make A
\* canonical where this one made a canonical
C38_Witness ==
    /\ DedupReturned
    /\ DefaultOptions
    /\ d_items = << <<"a">>, <<"A">>, <<"a", " ", "b">> >>
    /\ d_result.unique_items = << <<"a">>, <<"a", " ", "b">> >>
    /\ \E other_items \in ItemReorderings :
          _deduplicate_deterministic(other_items, TRUE, TRUE).unique_items
              = << <<"A">>, <<"a", " ", "b">> >>

-----------------------------------------------------------------------------
(* Phase B: the decisions of a batch are applied after its evaluation      *)

\* C39: from the batch_assign call of a batch to the evaluation of its last
\* item the cluster list stays as it is, so every validate_cluster call of
\* the batch is passed the members its target has at the start of the batch
\* plus the item; every item is assigned to None or to a representative
\* the list has at the start of the batch; and a cluster appended at the
\* end of the batch holds its own item alone.
C39_DecisionsAppliedAfterBatch ==
    /\ (probe = "answers" /\ oracle.before.pc \in {"for", "eval"} /\ pc = "eval") =>
            clusters = oracle.before.clusters
    /\ (Evaluated /\ oracle.asked = <<"validated_items">>) =>
            oracle.potential_new_members =
                ClusterOf(oracle.rep).members \cup {oracle.item}
    /\ (probe = "answers" /\ pc = "eval") =>
            \A item \in DOMAIN item_assignments :
                item_assignments[item] \in ClusterKeys(clusters) \cup {None}
    /\ BatchEnded =>
            /\ \A c \in Appended : c.members = {c.representative}
            /\ \A item \in batch :
                  item_assignments[item] \in
                      ClusterKeys(oracle.before.clusters) \cup {None}

\* c has been assigned to the cluster of a, and the validate_cluster call
\* for d, made after that, has still been passed the members without c
C39_Witness ==
    /\ Evaluated
    /\ oracle.item = "d"
    /\ oracle.asked = <<"validated_items">>
    /\ "c" \in DOMAIN item_assignments
    /\ item_assignments["c"] = oracle.rep
    /\ "c" \notin ClusterOf(oracle.rep).members
    /\ oracle.potential_new_members = ClusterOf(oracle.rep).members \cup {"d"}

====
